---------------------------- MODULE Spec2Model ----------------------------
(***************************************************************************)
(* X402PoolA: the payment-aggregation ledger (credits per (token,          *)
(* providerId), routes, signature/role authorised bulk settlement through  *)
(* a TokenGateway), modelled from the Solidity source.                      *)
(*                                                                         *)
(* One transaction of the EVM is all-or-nothing: a failed require reverts  *)
(* every write of the call.  A call is therefore one action; only          *)
(* bulkTeleport is cut in two at its single external call into the         *)
(* gateway, so that calls the gateway makes back into the pool while       *)
(* teleport is running, and a teleport that reverts, are steps of the      *)
(* model.                                                                  *)
(***************************************************************************)
EXTENDS Integers, Sequences, FiniteSets, TLC

(***************************************************************************)
(* uint256 arithmetic.  TLC's integers are 32 bits wide, the contract's    *)
(* 256: a uint256 that is scaled is held as its decimal digits, least      *)
(* significant first, without leading zeros (zero is the empty sequence).  *)
(***************************************************************************)
Digit == 0..9

BigZero == << >>

RECURSIVE ToBig(_)
ToBig(n) == IF n = 0 THEN << >> ELSE << n % 10 >> \o ToBig(n \div 10)

\* the digits up to the most significant one that is not zero
Strip(d) ==
    IF d = << >> THEN << >>
    ELSE IF d[Len(d)] # 0 THEN d
    ELSE LET nonzero == {i \in 1..Len(d) : d[i] # 0}
         IN  IF nonzero = {} THEN << >>
             ELSE SubSeq(d, 1, CHOOSE i \in nonzero : \A j \in nonzero : j <= i)

\* a < b for numbers of i digits each: decided by the most significant digit
\* in which they differ
BigLessFrom(a, b, i) ==
    LET differ == {j \in 1..i : a[j] # b[j]}
    IN  IF differ = {} THEN FALSE
        ELSE LET top == CHOOSE j \in differ : \A k \in differ : k <= j
             IN  a[top] < b[top]

BigLess(a, b) ==
    IF Len(a) # Len(b) THEN Len(a) < Len(b) ELSE BigLessFrom(a, b, Len(a))

BigLeq(a, b) == ~BigLess(b, a)

\* digits lo..hi of a - b with a borrow coming in, and the borrow going out;
\* the range is halved so that long numbers stay at a shallow depth
RECURSIVE BigSubFrom(_, _, _, _, _)
BigSubFrom(a, b, lo, hi, borrow) ==
    IF lo > hi THEN [digits |-> << >>, borrow |-> borrow]
    ELSE IF lo = hi
    THEN LET bi == IF lo <= Len(b) THEN b[lo] ELSE 0
             raw == a[lo] - bi - borrow
         IN  IF raw < 0
             THEN [digits |-> << raw + 10 >>, borrow |-> 1]
             ELSE [digits |-> << raw >>, borrow |-> 0]
    ELSE LET mid == (lo + hi) \div 2
             low == BigSubFrom(a, b, lo, mid, borrow)
             high == BigSubFrom(a, b, mid + 1, hi, low.borrow)
         IN  [digits |-> low.digits \o high.digits, borrow |-> high.borrow]

\* a - b for a >= b
BigSub(a, b) ==
    IF b = << >> THEN a ELSE Strip(BigSubFrom(a, b, 1, Len(a), 0).digits)

RECURSIVE Zeros(_)
Zeros(k) == IF k = 0 THEN << >> ELSE << 0 >> \o Zeros(k - 1)

\* digits lo..hi of a + b with a carry coming in, and the carry going out
RECURSIVE BigAddFrom(_, _, _, _, _)
BigAddFrom(a, b, lo, hi, carry) ==
    IF lo > hi THEN [digits |-> << >>, carry |-> carry]
    ELSE IF lo = hi
    THEN LET sum == (IF lo <= Len(a) THEN a[lo] ELSE 0)
                    + (IF lo <= Len(b) THEN b[lo] ELSE 0) + carry
         IN  [digits |-> << sum % 10 >>, carry |-> sum \div 10]
    ELSE LET mid == (lo + hi) \div 2
             low == BigAddFrom(a, b, lo, mid, carry)
             high == BigAddFrom(a, b, mid + 1, hi, low.carry)
         IN  [digits |-> low.digits \o high.digits, carry |-> high.carry]

\* a + b
BigAdd(a, b) ==
    LET sum == BigAddFrom(a, b, 1, IF Len(a) > Len(b) THEN Len(a) ELSE Len(b), 0)
    IN  IF sum.carry = 0 THEN sum.digits ELSE sum.digits \o << sum.carry >>

\* a * 10^k and a \div 10^k
BigMulPow10(a, k) == IF a = << >> THEN << >> ELSE Zeros(k) \o a

BigDivPow10(a, k) == IF Len(a) <= k THEN << >> ELSE SubSeq(a, k + 1, Len(a))

\* digits lo..hi of a * d for a digit d with a carry coming in, and the carry
\* going out
RECURSIVE BigMulFrom(_, _, _, _, _)
BigMulFrom(a, d, lo, hi, carry) ==
    IF lo > hi THEN [digits |-> << >>, carry |-> carry]
    ELSE IF lo = hi
    THEN LET prod == a[lo] * d + carry
         IN  [digits |-> << prod % 10 >>, carry |-> prod \div 10]
    ELSE LET mid == (lo + hi) \div 2
             low == BigMulFrom(a, d, lo, mid, carry)
             high == BigMulFrom(a, d, mid + 1, hi, low.carry)
         IN  [digits |-> low.digits \o high.digits, carry |-> high.carry]

\* a * d for a digit d
BigMulDigit(a, d) ==
    IF d = 0 THEN << >>
    ELSE LET prod == BigMulFrom(a, d, 1, Len(a), 0)
         IN  IF prod.carry = 0 THEN prod.digits
             ELSE prod.digits \o << prod.carry >>

\* r mod m for r < 10 * m: r less the largest multiple of m that fits (a
\* remainder step of the long division)
BigReduce(r, m) ==
    LET q == CHOOSE d \in Digit : /\ BigLeq(BigMulDigit(m, d), r)
                                  /\ BigLess(r, BigMulDigit(m, d + 1))
    IN  IF q = 0 THEN r ELSE BigSub(r, BigMulDigit(m, q))

\* a mod m by long division from digit i down, r the remainder so far
RECURSIVE BigModFrom(_, _, _, _)
BigModFrom(a, m, i, r) ==
    IF i = 0 THEN r
    ELSE LET shifted == Strip(<< a[i] >> \o r)
         IN  IF BigLess(shifted, m)
             THEN BigModFrom(a, m, i - 1, shifted)
             ELSE BigModFrom(a, m, i - 1, BigReduce(shifted, m))

\* the leading Len(m) - 1 digits of a are below m and start the division
BigMod(a, m) ==
    IF Len(a) < Len(m) THEN a
    ELSE BigModFrom(a, m, Len(a) - Len(m) + 1,
                    Strip(SubSeq(a, Len(a) - Len(m) + 2, Len(a))))

\* 2^256 = 115792089237316195423570985008687907853269984665640564039457584007913129639936
Two256 ==
    << 6,3,9,9,3,6,9,2,1,3,1,9,7,0,0,4,8,5,7,5,4,9,3,0,4,6,5,0,4,6,5,6,
       6,4,8,9,9,6,2,3,5,8,7,0,9,7,8,6,8,0,0,5,8,9,0,7,5,3,2,4,5,9,1,6,
       1,3,7,3,2,9,8,0,2,9,7,5,1,1 >>

\* type(uint256).max
MaxUint256 == BigSub(Two256, << 1 >>)

\* the result of an unchecked uint256 operation
Wrap256(a) == IF BigLess(a, Two256) THEN a ELSE BigMod(a, Two256)


(***************************************************************************)
(* Decimal conversion.                                                     *)
(***************************************************************************)
USDC_DECIMALS == 6
USDH_DECIMALS == 18
MAX_DECIMALS == 18

\* the two requires at the head of scaleAmount
ScaleAmountReverts(fromDecimals, toDecimals) ==
    fromDecimals > MAX_DECIMALS \/ toDecimals > MAX_DECIMALS

\* scaleAmount on a uint256 held as digits; both branches are `unchecked`
scaleAmount(amount, fromDecimals, toDecimals) ==
    IF fromDecimals = toDecimals THEN amount
    ELSE IF fromDecimals < toDecimals
         THEN Wrap256(BigMulPow10(amount, toDecimals - fromDecimals))
         ELSE BigDivPow10(amount, fromDecimals - toDecimals)

usdcToUSDh(amountUSDC) == scaleAmount(amountUSDC, USDC_DECIMALS, USDH_DECIMALS)

usdhToUSDC(amountUSDh) == scaleAmount(amountUSDh, USDH_DECIMALS, USDC_DECIMALS)

(***************************************************************************)
(* Bounds of the model and the small sets the calls draw their arguments   *)
(* from.                                                                   *)
(***************************************************************************)
MaxAmount == 2
MaxTimeout == 1
MaxNonce == 1
MaxCap == 1
MaxDeposited == 2

NullAddr == "0x0"
NullId == "0x00"
EmptyBytes == ""

Owner == "owner"
Op == "op"
R1 == "r1"
R2 == "r2"
Gateway == "gateway"
\* what ecrecover yields for a signature made over another digest
Garbage == "0xgarbage"

USDC == "usdc"
P1 == "p1"
P2 == "p2"
USDH_ASSET == "USD.h"
DEST == "EVM-11155111"
\* a second asset id and a second destination, for routes that are replaced
USDH_ASSET2 == "USD.h-2"
DEST2 == "EVM-97"

\* block.chainid and address(this), and a foreign network and deployment
ChainId == "base-sepolia"
OtherChain == "sepolia"
Self == "poolA"
OtherPool == "poolA2"

Callers == {Owner, Op}
Tokens == {NullAddr, USDC}
ProviderIds == {NullId, P1, P2}
AllKeys == Tokens \X ProviderIds
Keys == {USDC} \X {P1, P2}
Signers == {R1, R2}
Recipients == {NullAddr, R1, R2}
AssetIds == {NullId, USDH_ASSET, USDH_ASSET2}
DestChains == {EmptyBytes, DEST, DEST2}
Amounts == 0..MaxAmount
Timeouts == 0..MaxTimeout

(***************************************************************************)
(* Messages and signatures.  keccak256 over abi.encodePacked is taken to   *)
(* be injective: a digest is the record of the packed fields.  A signature *)
(* is the pair of its signer and the 32 bytes it was made over, and        *)
(* keccak256(signature) is the signature itself.  The contract recovers    *)
(* the signer over the EIP-191 hash of its digest, which is what a wallet  *)
(* signs when it is given the digest as a message; a signature made over   *)
(* the bare digest is made over other bytes.                               *)
(***************************************************************************)
ClaimMessage(token, providerId, amount, timeoutSeconds, nonce, chainid, this) ==
    [tag |-> "", token |-> token, providerId |-> providerId, amount |-> amount,
     timeoutSeconds |-> timeoutSeconds, nonce |-> nonce,
     chainid |-> chainid, this |-> this]

RouteMessage(token, providerId, assetId, destChain, recipient, chainid, this) ==
    [tag |-> "SET_ROUTE", token |-> token, providerId |-> providerId,
     assetId |-> assetId, destChain |-> destChain, recipient |-> recipient,
     chainid |-> chainid, this |-> this]

\* (mutant) the query leaves the nonce of the key out of its digest
getClaimMessageHashWithoutNonce(nonces, token, providerId, amount, timeoutSeconds) ==
    ClaimMessage(token, providerId, amount, timeoutSeconds, 0, ChainId, Self)

getClaimMessageHash(nonces, token, providerId, amount, timeoutSeconds) ==
    ClaimMessage(token, providerId, amount, timeoutSeconds,
                 nonces[<<token, providerId>>], ChainId, Self)

getRouteMessageHash(token, providerId, assetId, destChain, recipient) ==
    RouteMessage(token, providerId, assetId, destChain, recipient, ChainId, Self)

\* MessageHashUtils.toEthSignedMessageHash:
\* keccak256("\\x19Ethereum Signed Message:\\n32" ++ messageHash)
toEthSignedMessageHash(messageHash) ==
    [tag |-> "\\x19Ethereum Signed Message:\\n32", messageHash |-> messageHash]

\* the signature of a wallet that signs msg as a message (with the prefix)
Sign(signer, msg) ==
    [signer |-> signer, msg |-> msg, length |-> 65, raw |-> FALSE]

\* the signature of a key over the bare 32 bytes of msg (without the prefix)
SignRaw(signer, msg) ==
    [signer |-> signer, msg |-> msg, length |-> 65, raw |-> TRUE]

\* the 32 bytes a signature was made over
SignedHash(sig) ==
    IF sig.raw THEN sig.msg ELSE toEthSignedMessageHash(sig.msg)

\* `bytes signature` of length 0, and one of a length ECDSA.recover refuses
NoSig ==
    [signer |-> NullAddr, msg |-> [tag |-> "none"], length |-> 0, raw |-> FALSE]
ShortSig ==
    [signer |-> NullAddr, msg |-> [tag |-> "none"], length |-> 1, raw |-> FALSE]

\* ECDSA.recover reverts unless the signature is 65 bytes long
RecoverReverts(sig) == sig.length # 65

recover(hash, sig) == IF SignedHash(sig) = hash THEN sig.signer ELSE Garbage

(***************************************************************************)
(* State.                                                                  *)
(*   pool   storage of X402PoolA (and of its OpenZeppelin bases)           *)
(*   ext    the other contracts and the log: the pool's USD.h holding and  *)
(*          the gateway's allowance over it, the pool's custody of the     *)
(*          deposit token, the gateway's counters, the events emitted      *)
(*   pc     "idle", or "teleport" while bulkTeleport is inside             *)
(*          ITokenGateway.teleport                                         *)
(*   frame  the bulkTeleport call that is inside teleport                  *)
(*   saved  pool and ext as they were when that transaction began          *)
(*   last   the call that completed last and how it ended                  *)
(*   deposited, settled   per key, the amounts accepted by postPayment and *)
(*          the amounts of the bulkTeleport calls that succeeded           *)
(***************************************************************************)
VARIABLES pool, ext, pc, frame, saved, last, deposited, settled

vars == << pool, ext, pc, frame, saved, last, deposited, settled >>

NoRoute == [assetId |-> NullId, destChain |-> EmptyBytes,
            recipient |-> NullAddr, set |-> FALSE]

NoFrame == [op |-> "none"]
NoSnapshot == [op |-> "none"]
NoKey == << NullAddr, NullId >>

\* the record of a completed call: depth 1 is a call made by the gateway
\* from inside teleport; replay says the call brought a signature whose digest
\* was on record
NoArgs == << >>

\* the record of a call: what was called, how it ended, on which key, whether
\* the caller passed on a role or had to sign, from inside how many teleport
\* calls, whether the signature was one already used, the arguments, the
\* signature, the caller
DoneCall(op, res, key, path, depth, replay, args, sig, caller) ==
    [op |-> op, res |-> res, key |-> key, path |-> path, depth |-> depth,
     replay |-> replay, args |-> args, sig |-> sig, caller |-> caller]

Done(op, res, key, path, depth, replay) ==
    DoneCall(op, res, key, path, depth, replay, NoArgs, NoSig, NullAddr)

Depth == IF pc = "teleport" THEN 1 ELSE 0

K1 == << USDC, P1 >>
K2 == << USDC, P2 >>

\* the state as the last completed transaction left it: inside teleport the
\* running transaction's writes are not yet committed
CommittedPool == IF pc = "teleport" THEN saved.pool ELSE pool
CommittedExt == IF pc = "teleport" THEN saved.ext ELSE ext

\* the amount of the settlement that is inside teleport, on key k
InFlight(k) == IF pc = "teleport" /\ frame.key = k THEN frame.amount ELSE 0

\* the constructor, and the zero defaults of every mapping
\* (mutant) the constructor grants the admin role only
ConstructedAdminOnly(initialOwner) ==
    [credits |-> [k \in AllKeys |-> 0],
     routes |-> [k \in AllKeys |-> NoRoute],
     nonces |-> [k \in AllKeys |-> 0],
     usedSignatures |-> {},
     maxCredits |-> [k \in AllKeys |-> 0],
     emergencyPaused |-> FALSE,
     paused |-> FALSE,
     entered |-> FALSE,
     owner |-> initialOwner,
     admins |-> {initialOwner},
     creditManagers |-> {},
     operators |-> {}]

\* the storage as the constructor leaves it: Ownable(_owner), the three roles
\* granted to _owner, every mapping empty and every flag down
Constructed(initialOwner) ==
    [credits |-> [k \in AllKeys |-> 0],
     routes |-> [k \in AllKeys |-> NoRoute],
     nonces |-> [k \in AllKeys |-> 0],
     usedSignatures |-> {},
     maxCredits |-> [k \in AllKeys |-> 0],
     emergencyPaused |-> FALSE,
     paused |-> FALSE,
     entered |-> FALSE,
     owner |-> initialOwner,
     admins |-> {initialOwner},
     creditManagers |-> {initialOwner},
     operators |-> {initialOwner}]

Init ==
    /\ pool = Constructed(Owner)
    /\ ext = [usdhBal |-> BigZero,
              allowance |-> BigZero,
              custody |-> 0,
              teleportCount |-> 0,
              totalTeleported |-> [a \in AssetIds |-> BigZero],
              bulkTeleported |-> 0]
    /\ pc = "idle"
    /\ frame = NoFrame
    /\ saved = NoSnapshot
    /\ last = Done("constructor", "ok", NoKey, "none", 0, FALSE)
    /\ deposited = [k \in AllKeys |-> 0]
    /\ settled = [k \in AllKeys |-> 0]

hasRole(role, account) ==
    CASE role = "ADMIN_ROLE" -> account \in pool.admins
      [] role = "CREDIT_MANAGER_ROLE" -> account \in pool.creditManagers
      [] role = "OPERATOR_ROLE" -> account \in pool.operators

\* (mutant) the writes made before the failure stay
RevertedKeepsWrites(before, working) == working

\* a require that failed: the EVM reverts the call, so none of the writes the
\* call had made (`working`) outlive it
Reverted(before, working) == before

\* the outcome of running a handler: how it ended and the storage it had
\* written when it ended
Out(res, p, e) == [res |-> res, pool |-> p, ext |-> e]

(***************************************************************************)
(* postPayment.  transferOk is whether the token's transferFrom succeeds.  *)
(***************************************************************************)
\* (mutant) postPayment stores the amount instead of the new total
NewCreditsOverwrites(credits, amount) == amount

NewCredits(credits, amount) == credits + amount

\* (mutant) a cap of 0 is taken as a ceiling of 0
DepositWithinCapZeroIsCap(key, newCredits) == newCredits <= pool.maxCredits[key]

\* the cap of postPayment: 0 is no cap
DepositWithinCap(key, newCredits) ==
    pool.maxCredits[key] > 0 => newCredits <= pool.maxCredits[key]

\* (mutant) the tokens pulled are not the amount credited
PullTokensShort(e, amount) == [e EXCEPT !.custody = @ + amount - 1]

\* transferFrom(msg.sender, address(this), amount) has succeeded
PullTokens(e, amount) == [e EXCEPT !.custody = @ + amount]

\* (mutant) what transferFrom returns is not looked at
PostPaymentIgnoresTransfer(caller, token, amount, providerId, transferOk) ==
    LET key == << token, providerId >>
        newCredits == NewCredits(pool.credits[key], amount)
    IN  IF pool.paused THEN Out("EnforcedPause", pool, ext)
        ELSE IF pool.entered THEN Out("ReentrancyGuardReentrantCall", pool, ext)
        ELSE IF ~(amount > 0) THEN Out("zero amount", pool, ext)
        ELSE IF token = NullAddr THEN Out("Invalid token address", pool, ext)
        ELSE IF providerId = NullId THEN Out("Invalid provider ID", pool, ext)
        ELSE IF pool.emergencyPaused
             THEN Out("Contract is emergency paused", pool, ext)
        ELSE IF ~DepositWithinCap(key, newCredits)
             THEN Out("Exceeds max credits", pool, ext)
        ELSE Out("ok",
                 [pool EXCEPT !.credits[key] = newCredits],
                 IF transferOk THEN PullTokens(ext, amount) ELSE ext)

PostPaymentRun(caller, token, amount, providerId, transferOk) ==
    LET key == << token, providerId >>
        newCredits == NewCredits(pool.credits[key], amount)
    IN  IF pool.paused THEN Out("EnforcedPause", pool, ext)
        ELSE IF pool.entered THEN Out("ReentrancyGuardReentrantCall", pool, ext)
        ELSE IF ~(amount > 0) THEN Out("zero amount", pool, ext)
        ELSE IF token = NullAddr THEN Out("Invalid token address", pool, ext)
        ELSE IF providerId = NullId THEN Out("Invalid provider ID", pool, ext)
        ELSE IF pool.emergencyPaused
             THEN Out("Contract is emergency paused", pool, ext)
        ELSE IF ~DepositWithinCap(key, newCredits)
             THEN Out("Exceeds max credits", pool, ext)
        ELSE IF ~transferOk THEN Out("Transfer failed", pool, ext)
        ELSE Out("ok",
                 [pool EXCEPT !.credits[key] = newCredits],
                 PullTokens(ext, amount))

(***************************************************************************)
(* setRoute.                                                               *)
(***************************************************************************)
\* (mutant) the recovered signer is not compared with the recipient
RouteSignerUnchecked(token, providerId, assetId, destChain, recipient, signature) ==
    recipient

\* whether the caller passes setRoute on its role or as owner
RouteIsAuthorized(caller) == hasRole("ADMIN_ROLE", caller) \/ caller = pool.owner

\* the address recovered from the signature over the SET_ROUTE digest
RouteSigner(token, providerId, assetId, destChain, recipient, signature) ==
    recover(toEthSignedMessageHash(
                RouteMessage(token, providerId, assetId, destChain, recipient,
                             ChainId, Self)), signature)

\* (mutant) the route written keeps the recipient of the route before
RouteKeepsRecipient(key, assetId, destChain, recipient) ==
    [assetId |-> assetId, destChain |-> destChain,
     recipient |-> IF pool.routes[key].set THEN pool.routes[key].recipient
                   ELSE recipient,
     set |-> TRUE]

\* Route({assetId, destChain, recipient, set: true}), written over routes[key]
RouteWritten(key, assetId, destChain, recipient) ==
    [assetId |-> assetId, destChain |-> destChain, recipient |-> recipient,
     set |-> TRUE]

\* (mutant) a route that is set starts the key's nonce anew
SetRouteResetsNonce(caller, token, providerId, assetId, destChain, recipient, signature) ==
    LET key == << token, providerId >>
        isAuthorized == RouteIsAuthorized(caller)
        signer == RouteSigner(token, providerId, assetId, destChain, recipient,
                              signature)
    IN  IF pool.paused THEN Out("EnforcedPause", pool, ext)
        ELSE IF token = NullAddr THEN Out("Invalid token address", pool, ext)
        ELSE IF recipient = NullAddr THEN Out("Invalid recipient", pool, ext)
        ELSE IF assetId = NullId THEN Out("Invalid asset ID", pool, ext)
        ELSE IF destChain = EmptyBytes
             THEN Out("Invalid destination chain", pool, ext)
        ELSE IF ~isAuthorized /\ signature.length = 0
             THEN Out("Signature required for non-owners", pool, ext)
        ELSE IF ~isAuthorized /\ RecoverReverts(signature)
             THEN Out("ECDSAInvalidSignatureLength", pool, ext)
        ELSE IF ~isAuthorized /\ signer # recipient
             THEN Out("Invalid signature from recipient", pool, ext)
        ELSE Out("ok",
                 [pool EXCEPT !.routes[key] =
                     RouteWritten(key, assetId, destChain, recipient),
                              !.nonces[key] = 0],
                 ext)

\* (mutant) setRoute is not whenNotPaused
SetRouteWhilePaused(caller, token, providerId, assetId, destChain, recipient, signature) ==
    LET key == << token, providerId >>
        isAuthorized == RouteIsAuthorized(caller)
        signer == RouteSigner(token, providerId, assetId, destChain, recipient,
                              signature)
    IN  IF token = NullAddr THEN Out("Invalid token address", pool, ext)
        ELSE IF recipient = NullAddr THEN Out("Invalid recipient", pool, ext)
        ELSE IF assetId = NullId THEN Out("Invalid asset ID", pool, ext)
        ELSE IF destChain = EmptyBytes
             THEN Out("Invalid destination chain", pool, ext)
        ELSE IF ~isAuthorized /\ signature.length = 0
             THEN Out("Signature required for non-owners", pool, ext)
        ELSE IF ~isAuthorized /\ RecoverReverts(signature)
             THEN Out("ECDSAInvalidSignatureLength", pool, ext)
        ELSE IF ~isAuthorized /\ signer # recipient
             THEN Out("Invalid signature from recipient", pool, ext)
        ELSE Out("ok",
                 [pool EXCEPT !.routes[key] =
                     RouteWritten(key, assetId, destChain, recipient)],
                 ext)

\* (mutant) setRoute records the signature it passes on and refuses it after
SetRouteConsumesSignature(caller, token, providerId, assetId, destChain, recipient, signature) ==
    LET key == << token, providerId >>
        isAuthorized == RouteIsAuthorized(caller)
        signer == RouteSigner(token, providerId, assetId, destChain, recipient,
                              signature)
    IN  IF pool.paused THEN Out("EnforcedPause", pool, ext)
        ELSE IF token = NullAddr THEN Out("Invalid token address", pool, ext)
        ELSE IF recipient = NullAddr THEN Out("Invalid recipient", pool, ext)
        ELSE IF assetId = NullId THEN Out("Invalid asset ID", pool, ext)
        ELSE IF destChain = EmptyBytes
             THEN Out("Invalid destination chain", pool, ext)
        ELSE IF ~isAuthorized /\ signature.length = 0
             THEN Out("Signature required for non-owners", pool, ext)
        ELSE IF ~isAuthorized /\ RecoverReverts(signature)
             THEN Out("ECDSAInvalidSignatureLength", pool, ext)
        ELSE IF ~isAuthorized /\ signer # recipient
             THEN Out("Invalid signature from recipient", pool, ext)
        ELSE IF ~isAuthorized /\ signature \in pool.usedSignatures
             THEN Out("Signature already used", pool, ext)
        ELSE Out("ok",
                 [pool EXCEPT !.routes[key] =
                                  RouteWritten(key, assetId, destChain, recipient),
                              !.usedSignatures =
                                  IF isAuthorized THEN @ ELSE @ \cup {signature}],
                 ext)

SetRouteRun(caller, token, providerId, assetId, destChain, recipient, signature) ==
    LET key == << token, providerId >>
        isAuthorized == RouteIsAuthorized(caller)
        signer == RouteSigner(token, providerId, assetId, destChain, recipient,
                              signature)
    IN  IF pool.paused THEN Out("EnforcedPause", pool, ext)
        ELSE IF token = NullAddr THEN Out("Invalid token address", pool, ext)
        ELSE IF recipient = NullAddr THEN Out("Invalid recipient", pool, ext)
        ELSE IF assetId = NullId THEN Out("Invalid asset ID", pool, ext)
        ELSE IF destChain = EmptyBytes
             THEN Out("Invalid destination chain", pool, ext)
        ELSE IF ~isAuthorized /\ signature.length = 0
             THEN Out("Signature required for non-owners", pool, ext)
        ELSE IF ~isAuthorized /\ RecoverReverts(signature)
             THEN Out("ECDSAInvalidSignatureLength", pool, ext)
        ELSE IF ~isAuthorized /\ signer # recipient
             THEN Out("Invalid signature from recipient", pool, ext)
        ELSE Out("ok",
                 [pool EXCEPT !.routes[key] =
                     RouteWritten(key, assetId, destChain, recipient)],
                 ext)

(***************************************************************************)
(* bulkTeleport, up to its call into the gateway.                          *)
(***************************************************************************)
evmAddressToBytes32(a) == << "000000000000000000000000", a >>

Bytes32Zero == << "000000000000000000000000", NullAddr >>

\* the signature path's two writes: the digest is recorded, the nonce moves on
\* (mutant) the digest is recorded but the nonce stays
ConsumeSignatureKeepsNonce(p, key, signature) ==
    [p EXCEPT !.usedSignatures = @ \cup {signature}]

ConsumeSignature(p, key, signature) ==
    [p EXCEPT !.usedSignatures = @ \cup {signature},
              !.nonces[key] = @ + 1]

\* (mutant) the balance is not written before the call into the gateway
DebitCreditsSkipped(p, key, amount) == p

\* "Update state before external call"
DebitCredits(p, key, amount) == [p EXCEPT !.credits[key] = @ - amount]

\* (mutant) the approval is for the amount of the settlement
ApproveGatewayExact(e, usdhAmount) ==
    IF BigLess(e.allowance, usdhAmount)
    THEN [e EXCEPT !.allowance = usdhAmount]
    ELSE e

\* approve MAX once, when the allowance does not cover the amount
ApproveGateway(e, usdhAmount) ==
    IF BigLess(e.allowance, usdhAmount)
    THEN [e EXCEPT !.allowance = MaxUint256]
    ELSE e

TeleportParams(r, usdhAmount, timeoutSeconds) ==
    [amount |-> usdhAmount, relayerFee |-> 0, assetId |-> r.assetId,
     redeem |-> FALSE, to |-> evmAddressToBytes32(r.recipient),
     dest |-> r.destChain, timeout |-> timeoutSeconds, nativeCost |-> 0,
     data |-> "0x"]

\* (mutant) only the operator role passes, not the admin role
BulkIsAuthorizedOperatorOnly(caller) == hasRole("OPERATOR_ROLE", caller)

\* whether the caller passes on its role, without a look at the signature
BulkIsAuthorized(caller) ==
    hasRole("ADMIN_ROLE", caller) \/ hasRole("OPERATOR_ROLE", caller)

\* nonReentrant has set its flag for the length of the call
Entered(p) == [p EXCEPT !.entered = TRUE]

\* (mutant) the digest leaves the amount out: it is taken as signed
BulkSignerAnyAmount(token, providerId, amount, timeoutSeconds, signature) ==
    recover(toEthSignedMessageHash(
                ClaimMessage(token, providerId, signature.msg.amount,
                             timeoutSeconds,
                             pool.nonces[<< token, providerId >>], ChainId, Self)),
            signature)

\* (mutant) the digest leaves the nonce out: it is taken as signed
BulkSignerAnyNonce(token, providerId, amount, timeoutSeconds, signature) ==
    recover(toEthSignedMessageHash(
                ClaimMessage(token, providerId, amount, timeoutSeconds,
                             signature.msg.nonce, ChainId, Self)),
            signature)

\* the address recovered from the signature over the digest of this call at
\* the key's current nonce, on this chain, for this contract
BulkSigner(token, providerId, amount, timeoutSeconds, signature) ==
    recover(toEthSignedMessageHash(
                ClaimMessage(token, providerId, amount, timeoutSeconds,
                             pool.nonces[<< token, providerId >>], ChainId, Self)),
            signature)

\* (mutant) the "insufficient credits" require is off by one
HasCreditsOffByOne(key, amount) == pool.credits[key] + 1 >= amount

\* (mutant) the "insufficient credits" require is missing
HasCreditsUnchecked(key, amount) == TRUE

HasCredits(key, amount) == pool.credits[key] >= amount

\* (mutant) the "route not set" require is missing
RouteIsSetUnchecked(r) == TRUE

RouteIsSet(r) == r.set

\* (mutant) the cap of bulkTeleport is not looked at
SettleWithinCapUnchecked(key, amount) == TRUE

\* the cap of bulkTeleport: 0 is no cap
SettleWithinCap(key, amount) ==
    pool.maxCredits[key] > 0 => amount <= pool.maxCredits[key]

\* (mutant) the balance is compared with the amount before its conversion
HasLiquidityUnconverted(amount, usdhAmount) == BigLeq(ToBig(amount), ext.usdhBal)

\* the pool holds the USD.h the settlement needs
HasLiquidity(amount, usdhAmount) == BigLeq(usdhAmount, ext.usdhBal)

\* (mutant) the "Invalid timeout" require is missing
TimeoutIsValidUnchecked(timeoutSeconds) == TRUE

TimeoutIsValid(timeoutSeconds) == timeoutSeconds > 0

\* (mutant) the requires on the arguments stand ahead of the authorization
BulkTeleportValidatesFirst(caller, token, providerId, amount, timeoutSeconds, signature) ==
    LET key == << token, providerId >>
        r == pool.routes[key]
        isAuthorized == BulkIsAuthorized(caller)
        signer == BulkSigner(token, providerId, amount, timeoutSeconds, signature)
        p0 == Entered(pool)
        p1 == IF isAuthorized THEN p0 ELSE ConsumeSignature(p0, key, signature)
        usdhAmount == usdcToUSDh(ToBig(amount))
    IN  IF pool.paused THEN Out("EnforcedPause", pool, ext)
        ELSE IF pool.entered THEN Out("ReentrancyGuardReentrantCall", pool, ext)
        ELSE IF ~RouteIsSet(r) THEN Out("route not set", p0, ext)
        ELSE IF ~(amount > 0) THEN Out("zero", p0, ext)
        ELSE IF token = NullAddr THEN Out("Invalid token address", p0, ext)
        ELSE IF providerId = NullId THEN Out("Invalid provider ID", p0, ext)
        ELSE IF ~TimeoutIsValid(timeoutSeconds)
             THEN Out("Invalid timeout", p0, ext)
        ELSE IF ~isAuthorized /\ signature.length = 0
             THEN Out("Signature required for non-operators", p0, ext)
        ELSE IF ~isAuthorized /\ RecoverReverts(signature)
             THEN Out("ECDSAInvalidSignatureLength", p0, ext)
        ELSE IF ~isAuthorized /\ signer # r.recipient
             THEN Out("Invalid signature from recipient", p0, ext)
        ELSE IF ~isAuthorized /\ signature \in pool.usedSignatures
             THEN Out("Signature already used", p0, ext)
        ELSE IF ~HasCredits(key, amount)
             THEN Out("insufficient credits", p1, ext)
        ELSE IF pool.emergencyPaused
             THEN Out("Contract is emergency paused", p1, ext)
        ELSE IF ~SettleWithinCap(key, amount)
             THEN Out("Amount exceeds max credits", p1, ext)
        ELSE IF ~HasLiquidity(amount, usdhAmount)
             THEN Out("Insufficient USDh balance", p1, ext)
        ELSE Out("ok", DebitCredits(p1, key, amount),
                 ApproveGateway(ext, usdhAmount))

BulkTeleportRun(caller, token, providerId, amount, timeoutSeconds, signature) ==
    LET key == << token, providerId >>
        r == pool.routes[key]
        isAuthorized == BulkIsAuthorized(caller)
        signer == BulkSigner(token, providerId, amount, timeoutSeconds, signature)
        p0 == Entered(pool)
        p1 == IF isAuthorized THEN p0 ELSE ConsumeSignature(p0, key, signature)
        usdhAmount == usdcToUSDh(ToBig(amount))
    IN  IF pool.paused THEN Out("EnforcedPause", pool, ext)
        ELSE IF pool.entered THEN Out("ReentrancyGuardReentrantCall", pool, ext)
        ELSE IF ~RouteIsSet(r) THEN Out("route not set", p0, ext)
        ELSE IF ~isAuthorized /\ signature.length = 0
             THEN Out("Signature required for non-operators", p0, ext)
        ELSE IF ~isAuthorized /\ RecoverReverts(signature)
             THEN Out("ECDSAInvalidSignatureLength", p0, ext)
        ELSE IF ~isAuthorized /\ signer # r.recipient
             THEN Out("Invalid signature from recipient", p0, ext)
        ELSE IF ~isAuthorized /\ signature \in pool.usedSignatures
             THEN Out("Signature already used", p0, ext)
        ELSE IF ~(amount > 0) THEN Out("zero", p1, ext)
        ELSE IF token = NullAddr THEN Out("Invalid token address", p1, ext)
        ELSE IF providerId = NullId THEN Out("Invalid provider ID", p1, ext)
        ELSE IF ~TimeoutIsValid(timeoutSeconds)
             THEN Out("Invalid timeout", p1, ext)
        ELSE IF ~HasCredits(key, amount)
             THEN Out("insufficient credits", p1, ext)
        ELSE IF pool.emergencyPaused
             THEN Out("Contract is emergency paused", p1, ext)
        ELSE IF ~SettleWithinCap(key, amount)
             THEN Out("Amount exceeds max credits", p1, ext)
        ELSE IF ~HasLiquidity(amount, usdhAmount)
             THEN Out("Insufficient USDh balance", p1, ext)
        ELSE Out("ok", DebitCredits(p1, key, amount),
                 ApproveGateway(ext, usdhAmount))

\* the call as it stands while the gateway runs: r is the memory copy of the
\* route taken on entry, p the parameters handed to teleport
BulkFrame(caller, token, providerId, amount, timeoutSeconds, signature) ==
    LET r == pool.routes[<< token, providerId >>]
    IN  [op |-> "bulkTeleport", caller |-> caller,
         key |-> << token, providerId >>, amount |-> amount,
         path |-> IF BulkIsAuthorized(caller) THEN "role" ELSE "sig",
         signature |-> signature, r |-> r,
         p |-> TeleportParams(r, usdcToUSDh(ToBig(amount)), timeoutSeconds)]

(***************************************************************************)
(* The remaining handlers.                                                 *)
(***************************************************************************)
SetMaxCreditsRun(caller, token, providerId, maxAmount) ==
    IF ~(hasRole("ADMIN_ROLE", caller) \/ hasRole("CREDIT_MANAGER_ROLE", caller))
    THEN Out("Unauthorized", pool, ext)
    ELSE IF token = NullAddr THEN Out("Invalid token address", pool, ext)
    ELSE IF providerId = NullId THEN Out("Invalid provider ID", pool, ext)
    ELSE Out("ok", [pool EXCEPT !.maxCredits[<< token, providerId >>] = maxAmount],
             ext)

\* (mutant) the amount is added to the credits instead of replacing them
SetCreditsAdds(caller, token, providerId, amount) ==
    IF caller # pool.owner THEN Out("OwnableUnauthorizedAccount", pool, ext)
    ELSE IF token = NullAddr THEN Out("Invalid token address", pool, ext)
    ELSE IF providerId = NullId THEN Out("Invalid provider ID", pool, ext)
    ELSE Out("ok", [pool EXCEPT !.credits[<< token, providerId >>] = @ + amount],
             ext)

\* onlyOwner; no whenNotPaused, no look at maxCredits
SetCreditsRun(caller, token, providerId, amount) ==
    IF caller # pool.owner THEN Out("OwnableUnauthorizedAccount", pool, ext)
    ELSE IF token = NullAddr THEN Out("Invalid token address", pool, ext)
    ELSE IF providerId = NullId THEN Out("Invalid provider ID", pool, ext)
    ELSE Out("ok", [pool EXCEPT !.credits[<< token, providerId >>] = amount], ext)

\* (mutant) the flag of the pool is set, Pausable._pause is not called
EmergencyPauseFlagOnly(caller) ==
    IF caller # pool.owner THEN Out("OwnableUnauthorizedAccount", pool, ext)
    ELSE Out("ok", [pool EXCEPT !.emergencyPaused = TRUE], ext)

\* (mutant) the pause is guarded by the admin role instead of onlyOwner
EmergencyPauseByAdmin(caller) ==
    IF ~hasRole("ADMIN_ROLE", caller) THEN Out("Unauthorized", pool, ext)
    ELSE IF pool.paused THEN Out("EnforcedPause", pool, ext)
    ELSE Out("ok", [pool EXCEPT !.emergencyPaused = TRUE, !.paused = TRUE], ext)

\* onlyOwner, then the flag, then Pausable._pause (whenNotPaused)
EmergencyPauseRun(caller) ==
    LET p1 == [pool EXCEPT !.emergencyPaused = TRUE]
    IN  IF caller # pool.owner THEN Out("OwnableUnauthorizedAccount", pool, ext)
        ELSE IF pool.paused THEN Out("EnforcedPause", p1, ext)
        ELSE Out("ok", [p1 EXCEPT !.paused = TRUE], ext)

\* (mutant) unpause leaves emergencyPaused set
UnpauseKeepsEmergencyFlag(caller) ==
    IF caller # pool.owner THEN Out("OwnableUnauthorizedAccount", pool, ext)
    ELSE IF ~pool.paused THEN Out("ExpectedPause", pool, ext)
    ELSE Out("ok", [pool EXCEPT !.paused = FALSE], ext)

\* onlyOwner, then the flag, then Pausable._unpause (whenPaused)
UnpauseRun(caller) ==
    LET p1 == [pool EXCEPT !.emergencyPaused = FALSE]
    IN  IF caller # pool.owner THEN Out("OwnableUnauthorizedAccount", pool, ext)
        ELSE IF ~pool.paused THEN Out("ExpectedPause", p1, ext)
        ELSE Out("ok", [p1 EXCEPT !.paused = FALSE], ext)

GrantCreditManagerRoleRun(caller, account) ==
    IF ~hasRole("ADMIN_ROLE", caller) THEN Out("Unauthorized", pool, ext)
    ELSE Out("ok", [pool EXCEPT !.creditManagers = @ \cup {account}], ext)

RevokeCreditManagerRoleRun(caller, account) ==
    IF ~hasRole("ADMIN_ROLE", caller) THEN Out("Unauthorized", pool, ext)
    ELSE Out("ok", [pool EXCEPT !.creditManagers = @ \ {account}], ext)

GrantOperatorRoleRun(caller, account) ==
    IF ~hasRole("ADMIN_ROLE", caller) THEN Out("Unauthorized", pool, ext)
    ELSE Out("ok", [pool EXCEPT !.operators = @ \cup {account}], ext)

\* (mutant) the revocation leaves the role where it is
RevokeOperatorRoleKeepsRole(caller, account) ==
    IF ~hasRole("ADMIN_ROLE", caller) THEN Out("Unauthorized", pool, ext)
    ELSE Out("ok", pool, ext)

RevokeOperatorRoleRun(caller, account) ==
    IF ~hasRole("ADMIN_ROLE", caller) THEN Out("Unauthorized", pool, ext)
    ELSE Out("ok", [pool EXCEPT !.operators = @ \ {account}], ext)

(***************************************************************************)
(* What the calls draw their arguments from: the well-formed arguments on  *)
(* the two keys, and one ill-formed tuple for each validation require.     *)
(* With well-formed arguments a caller brings no signature, a signature    *)
(* used before for these arguments or each signer's signature over this    *)
(* call's digest; with the smallest well-formed arguments also a signature *)
(* of a wrong length and the recipient's over a digest that differs from   *)
(* this call's in one field; with ill-formed arguments, none or the        *)
(* recipient's.  A                                                         *)
(* caller who passes on its role brings none or the recipient's: the code  *)
(* does not look at it.  A cap is absent (0) or MaxCap.                    *)
(***************************************************************************)
MaxFund == 2

PostArgs ==
    {<< USDC, a, q >> : a \in 1..MaxAmount, q \in {P1, P2}}
    \cup {<< NullAddr, 1, P1 >>, << USDC, 1, NullId >>, << USDC, 0, P1 >>}

RouteArgsWellFormed ==
    {<< USDC, P1, USDH_ASSET, DEST, R1 >>,
     << USDC, P2, USDH_ASSET, DEST, R2 >>}

RouteArgs ==
    RouteArgsWellFormed
    \cup {<< NullAddr, P1, USDH_ASSET, DEST, R1 >>,
          << USDC, P1, USDH_ASSET, DEST, NullAddr >>,
          << USDC, P1, NullId, DEST, R1 >>,
          << USDC, P1, USDH_ASSET, EmptyBytes, R1 >>}

BulkArgsValid ==
    {<< USDC, q, a, 1 >> : q \in {P1, P2}, a \in 1..MaxAmount}
    \cup {<< USDC, P1, 1, t >> : t \in 1..MaxTimeout}

BulkArgs ==
    BulkArgsValid
    \cup {<< NullAddr, P1, 1, 1 >>, << USDC, NullId, 1, 1 >>,
          << USDC, P1, 0, 1 >>, << USDC, P1, 1, 0 >>}

CapArgs ==
    {<< USDC, P1, c >> : c \in {0, MaxCap}}
    \cup {<< NullAddr, P1, 1 >>, << USDC, NullId, 1 >>}

ClaimMessagesNear(token, providerId, amount, timeoutSeconds) ==
    LET n == pool.nonces[<< token, providerId >>]
    IN  {ClaimMessage(token, q, amount, timeoutSeconds, n, ChainId, Self) :
            q \in {P1, P2}}
        \cup {ClaimMessage(token, providerId, a, timeoutSeconds, n, ChainId, Self) :
            a \in Amounts}
        \cup {ClaimMessage(token, providerId, amount, t, n, ChainId, Self) :
            t \in Timeouts}
        \cup {ClaimMessage(token, providerId, amount, timeoutSeconds, m, ChainId, Self) :
            m \in 0..MaxNonce}
        \cup {ClaimMessage(token, providerId, amount, timeoutSeconds, n, c, Self) :
            c \in {ChainId, OtherChain}}
        \cup {ClaimMessage(token, providerId, amount, timeoutSeconds, n, ChainId, t) :
            t \in {Self, OtherPool}}

ClaimSigInputs(caller, token, providerId, amount, timeoutSeconds) ==
    IF pool.paused
    THEN {NoSig, Sign(pool.routes[<< token, providerId >>].recipient,
                      getClaimMessageHash(pool.nonces, token, providerId,
                                          amount, timeoutSeconds))}
    ELSE IF BulkIsAuthorized(caller)
    THEN {NoSig}
         \cup IF << token, providerId, amount, timeoutSeconds >> \in BulkArgsValid
              THEN {Sign(pool.routes[<< token, providerId >>].recipient,
                         getClaimMessageHash(pool.nonces, token, providerId,
                                             amount, timeoutSeconds))}
              ELSE {}
    ELSE LET exact == getClaimMessageHash(pool.nonces, token, providerId, amount,
                                          timeoutSeconds)
             recipient == pool.routes[<< token, providerId >>].recipient
             args == << token, providerId, amount, timeoutSeconds >>
         IN  {NoSig, Sign(recipient, exact)}
             \cup (IF args \in BulkArgsValid
                   THEN {Sign(s, exact) : s \in Signers}
                        \cup {u \in pool.usedSignatures :
                                 u.msg = [exact EXCEPT !.nonce = u.msg.nonce]}
                   ELSE {})
             \cup (IF args \in BulkArgsValid /\ amount = 1 /\ timeoutSeconds = 1
                   THEN {ShortSig, SignRaw(recipient, exact)}
                        \cup {Sign(recipient, m) :
                                 m \in ClaimMessagesNear(token, providerId, amount,
                                                         timeoutSeconds)}
                   ELSE {})

RouteMessagesNear(token, providerId, assetId, destChain, recipient) ==
    {RouteMessage(token, q, assetId, destChain, recipient, ChainId, Self) :
        q \in {P1, P2}}
    \cup {RouteMessage(token, providerId, assetId, destChain, x, ChainId, Self) :
        x \in {R1, R2}}
    \cup {RouteMessage(token, providerId, assetId, destChain, recipient, c, Self) :
        c \in {ChainId, OtherChain}}
    \cup {RouteMessage(token, providerId, assetId, destChain, recipient, ChainId, t) :
        t \in {Self, OtherPool}}

RouteSigInputs(caller, token, providerId, assetId, destChain, recipient) ==
    IF pool.paused
    THEN {NoSig, Sign(recipient, getRouteMessageHash(token, providerId, assetId,
                                                     destChain, recipient))}
    ELSE IF RouteIsAuthorized(caller)
    THEN {NoSig}
         \cup IF << token, providerId, assetId, destChain, recipient >>
                    \in RouteArgsWellFormed
              THEN {Sign(recipient, getRouteMessageHash(token, providerId, assetId,
                                                        destChain, recipient))}
              ELSE {}
    ELSE {NoSig, Sign(recipient, getRouteMessageHash(token, providerId, assetId,
                                                     destChain, recipient))}
         \cup IF << token, providerId, assetId, destChain, recipient >>
                    \in RouteArgsWellFormed
              THEN {ShortSig,
                    SignRaw(recipient,
                            getRouteMessageHash(token, providerId, assetId,
                                                destChain, recipient))}
                   \cup {Sign(s, getRouteMessageHash(token, providerId, assetId,
                                                     destChain, recipient)) :
                            s \in Signers}
                   \cup {Sign(recipient, m) :
                            m \in RouteMessagesNear(token, providerId, assetId,
                                                    destChain, recipient)}
              ELSE {}

\* while the pool is paused whenNotPaused stops the call before it looks at
\* an argument: one well-formed tuple per key stands for them all
PostArgsNow ==
    IF pool.paused THEN {<< USDC, 1, q >> : q \in {P1, P2}} ELSE PostArgs

RouteArgsNow == IF pool.paused THEN RouteArgsWellFormed ELSE RouteArgs

BulkArgsNow ==
    IF pool.paused THEN {<< USDC, q, 1, 1 >> : q \in {P1, P2}} ELSE BulkArgs

\* who can be calling: an account in a transaction of its own, or the
\* gateway from inside teleport
CallersNow == IF pc = "idle" THEN Callers ELSE {Gateway}

(***************************************************************************)
(* Actions: one call each.  A call that fails leaves only its record.      *)
(***************************************************************************)
\* `last` labels the step that led to a state.  A failed call leaves nothing
\* but that label, so what can follow it is what could follow the state
\* before it: the calls are explored from the states a success has led to.
Live == last.res \in {"ok", "calling teleport"}

FinishCall(op, out, key, path, replay, args, sig, caller) ==
    /\ Live
    /\ pool' = IF out.res = "ok" THEN out.pool ELSE Reverted(pool, out.pool)
    /\ ext' = IF out.res = "ok" THEN out.ext ELSE Reverted(ext, out.ext)
    /\ last' = DoneCall(op, out.res, key, path, Depth, replay, args, sig, caller)
    /\ UNCHANGED << pc, frame, saved >>

\* Ownable.transferOwnership, which the pool inherits
TransferOwnershipRun(caller, newOwner) ==
    IF caller # pool.owner THEN Out("OwnableUnauthorizedAccount", pool, ext)
    ELSE IF newOwner = NullAddr THEN Out("OwnableInvalidOwner", pool, ext)
    ELSE Out("ok", [pool EXCEPT !.owner = newOwner], ext)

Finish(op, out, key, path, replay) ==
    FinishCall(op, out, key, path, replay, NoArgs, NoSig, NullAddr)

postPayment(caller, token, amount, providerId, transferOk) ==
    LET out == PostPaymentRun(caller, token, amount, providerId, transferOk)
        key == << token, providerId >>
    IN  /\ deposited[<< USDC, P1 >>] + deposited[<< USDC, P2 >>] + amount
               <= MaxDeposited
        /\ FinishCall("postPayment", out, key, "none", FALSE,
                      << token, amount, providerId, transferOk >>, NoSig, NullAddr)
        /\ deposited' = IF out.res = "ok"
                        THEN [deposited EXCEPT ![key] = @ + amount]
                        ELSE deposited
        /\ UNCHANGED settled

setRoute(caller, token, providerId, assetId, destChain, recipient, signature) ==
    LET out == SetRouteRun(caller, token, providerId, assetId, destChain,
                           recipient, signature)
    IN  /\ FinishCall("setRoute", out, << token, providerId >>,
                      IF RouteIsAuthorized(caller) THEN "role" ELSE "sig", FALSE,
                      << token, providerId, assetId, destChain, recipient >>,
                      signature, caller)
        /\ UNCHANGED << deposited, settled >>

\* bulkTeleport from its entry to the call into the gateway: it fails on the
\* way, or it stands inside teleport with its state already written
bulkTeleport(caller, token, providerId, amount, timeoutSeconds, signature) ==
    LET out == BulkTeleportRun(caller, token, providerId, amount,
                               timeoutSeconds, signature)
        path == IF BulkIsAuthorized(caller) THEN "role" ELSE "sig"
    IN  IF out.res # "ok"
        THEN /\ FinishCall("bulkTeleport", out, << token, providerId >>, path,
                           signature \in pool.usedSignatures,
                           << token, providerId, amount, timeoutSeconds >>,
                           signature, caller)
             /\ UNCHANGED << deposited, settled >>
        ELSE /\ Live
             /\ pc = "idle"
             /\ pool' = out.pool
             /\ ext' = out.ext
             /\ pc' = "teleport"
             /\ frame' = BulkFrame(caller, token, providerId, amount, timeoutSeconds,
                                 signature)
             /\ saved' = [pool |-> pool, ext |-> ext]
             /\ last' = DoneCall("bulkTeleport", "calling teleport",
                                 << token, providerId >>, path, 0, FALSE,
                                 << token, providerId, amount, timeoutSeconds >>,
                                 signature, caller)
             /\ UNCHANGED << deposited, settled >>

\* emit BulkTeleported(token, providerId, amount, r.recipient, r.destChain)
BulkTeleported(token, providerId, amount, recipient, destChain) ==
    << token, providerId, amount, recipient, destChain >>

\* (mutant) the settlement is handed to the gateway twice
TeleportReturnsTwice ==
    /\ Live
    /\ pc = "teleport"
    /\ frame.p.amount # BigZero
    /\ frame.p.to # Bytes32Zero
    /\ pool' = [pool EXCEPT !.entered = FALSE]
    /\ ext' = [ext EXCEPT !.teleportCount = @ + 2,
                          !.totalTeleported[frame.p.assetId] =
                              BigAdd(BigAdd(@, frame.p.amount), frame.p.amount),
                          !.bulkTeleported = @ + 1]
    /\ pc' = "idle"
    /\ frame' = NoFrame
    /\ saved' = NoSnapshot
    /\ last' = DoneCall("bulkTeleport", "ok", frame.key, frame.path, 0, FALSE,
                        << frame.key[1], frame.key[2], frame.amount,
                           frame.r.recipient, frame.r.destChain >>,
                        NoSig, NullAddr)
    /\ settled' = [settled EXCEPT ![frame.key] = @ + frame.amount]
    /\ UNCHANGED deposited

\* MockTokenGateway.teleport accepts the call; bulkTeleport emits its events
\* and returns
TeleportReturns ==
    /\ Live
    /\ pc = "teleport"
    /\ frame.p.amount # BigZero
    /\ frame.p.to # Bytes32Zero
    /\ pool' = [pool EXCEPT !.entered = FALSE]
    /\ ext' = [ext EXCEPT !.teleportCount = @ + 1,
                          !.totalTeleported[frame.p.assetId] =
                              BigAdd(@, frame.p.amount),
                          !.bulkTeleported = @ + 1]
    /\ pc' = "idle"
    /\ frame' = NoFrame
    /\ saved' = NoSnapshot
    /\ last' = DoneCall("bulkTeleport", "ok", frame.key, frame.path, 0, FALSE,
                        BulkTeleported(frame.key[1], frame.key[2], frame.amount,
                                       frame.r.recipient, frame.r.destChain),
                        NoSig, NullAddr)
    /\ settled' = [settled EXCEPT ![frame.key] = @ + frame.amount]
    /\ UNCHANGED deposited

\* (mutant) the approval given before the call outlives the revert
TeleportRevertsKeepsAllowance ==
    /\ Live
    /\ pc = "teleport"
    /\ pool' = Reverted(saved.pool, pool)
    /\ ext' = [saved.ext EXCEPT !.allowance = ext.allowance]
    /\ pc' = "idle"
    /\ frame' = NoFrame
    /\ saved' = NoSnapshot
    /\ last' = Done("bulkTeleport", "teleport reverted", frame.key, frame.path, 0,
                    FALSE)
    /\ UNCHANGED << deposited, settled >>

\* the gateway rejects the call: the whole transaction reverts
TeleportReverts ==
    /\ Live
    /\ pc = "teleport"
    /\ pool' = Reverted(saved.pool, pool)
    /\ ext' = Reverted(saved.ext, ext)
    /\ pc' = "idle"
    /\ frame' = NoFrame
    /\ saved' = NoSnapshot
    /\ last' = Done("bulkTeleport", "teleport reverted", frame.key, frame.path, 0,
                    FALSE)
    /\ UNCHANGED << deposited, settled >>

setMaxCredits(caller, token, providerId, maxAmount) ==
    /\ FinishCall("setMaxCredits",
                  SetMaxCreditsRun(caller, token, providerId, maxAmount),
                  << token, providerId >>, "role", FALSE,
                  << token, providerId, maxAmount >>, NoSig, caller)
    /\ UNCHANGED << deposited, settled >>

\* the credits set, with what the key has settled, stay within MaxDeposited
setCredits(caller, token, providerId, amount) ==
    /\ settled[K1] + settled[K2] + amount <= MaxDeposited
    /\ FinishCall("setCredits", SetCreditsRun(caller, token, providerId, amount),
                  << token, providerId >>, "role", FALSE,
                  << token, providerId, amount >>, NoSig, caller)
    /\ UNCHANGED << deposited, settled >>

emergencyPause(caller) ==
    /\ FinishCall("emergencyPause", EmergencyPauseRun(caller), NoKey, "role", FALSE,
                  NoArgs, NoSig, caller)
    /\ UNCHANGED << deposited, settled >>

unpause(caller) ==
    /\ FinishCall("unpause", UnpauseRun(caller), NoKey, "role", FALSE,
                  NoArgs, NoSig, caller)
    /\ UNCHANGED << deposited, settled >>

grantCreditManagerRole(caller, account) ==
    /\ FinishCall("grantCreditManagerRole",
                  GrantCreditManagerRoleRun(caller, account), NoKey, "role", FALSE,
                  << account >>, NoSig, caller)
    /\ UNCHANGED << deposited, settled >>

revokeCreditManagerRole(caller, account) ==
    /\ FinishCall("revokeCreditManagerRole",
                  RevokeCreditManagerRoleRun(caller, account), NoKey, "role", FALSE,
                  << account >>, NoSig, caller)
    /\ UNCHANGED << deposited, settled >>

grantOperatorRole(caller, account) ==
    /\ FinishCall("grantOperatorRole", GrantOperatorRoleRun(caller, account), NoKey,
                  "role", FALSE, << account >>, NoSig, caller)
    /\ UNCHANGED << deposited, settled >>

revokeOperatorRole(caller, account) ==
    /\ FinishCall("revokeOperatorRole", RevokeOperatorRoleRun(caller, account), NoKey,
                  "role", FALSE, << account >>, NoSig, caller)
    /\ UNCHANGED << deposited, settled >>

transferOwnership(caller, newOwner) ==
    /\ FinishCall("transferOwnership", TransferOwnershipRun(caller, newOwner), NoKey,
                  "role", FALSE, << newOwner >>, NoSig, caller)
    /\ UNCHANGED << deposited, settled >>

\* someone transfers USD.h to the pool
FundUSDh(n) ==
    /\ Live
    /\ pc = "idle"
    /\ BigLess(ext.usdhBal, usdcToUSDh(ToBig(n)))
    /\ ext' = [ext EXCEPT !.usdhBal = usdcToUSDh(ToBig(n))]
    /\ last' = Done("fundUSDh", "ok", NoKey, "none", 0, FALSE)
    /\ UNCHANGED << pool, pc, frame, saved, deposited, settled >>

Next ==
    \/ Live /\ \E caller \in CallersNow, a \in PostArgsNow, transferOk \in BOOLEAN :
          postPayment(caller, a[1], a[2], a[3], transferOk)
    \/ Live /\ \E caller \in CallersNow, a \in RouteArgsNow :
          \E signature \in RouteSigInputs(caller, a[1], a[2], a[3], a[4], a[5]) :
              setRoute(caller, a[1], a[2], a[3], a[4], a[5], signature)
    \/ Live /\ \E caller \in CallersNow, a \in BulkArgsNow :
          \E signature \in ClaimSigInputs(caller, a[1], a[2], a[3], a[4]) :
              bulkTeleport(caller, a[1], a[2], a[3], a[4], signature)
    \/ Live /\ TeleportReturns
    \/ Live /\ TeleportReverts
    \/ Live /\ \E caller \in CallersNow, a \in CapArgs :
          setMaxCredits(caller, a[1], a[2], a[3])
    \/ Live /\ \E caller \in CallersNow : emergencyPause(caller)
    \/ Live /\ \E caller \in CallersNow : unpause(caller)
    \/ Live /\ \E caller \in CallersNow : grantOperatorRole(caller, Op)
    \/ Live /\ \E caller \in CallersNow : revokeOperatorRole(caller, Op)
    \/ Live /\ \E caller \in CallersNow, newOwner \in {Op, NullAddr} :
          transferOwnership(caller, newOwner)
    \/ Live /\ FundUSDh(MaxFund)

Spec == Init /\ [][Next]_vars

(***************************************************************************)
(* The pool under its administration: every role and the ownership are     *)
(* granted, revoked and handed over, for the owner's account too, the pool *)
(* is funded step by step, and the calls on K1 come with straight inputs:  *)
(* no signature or the recipient's over the call itself.                   *)
(***************************************************************************)
Accounts == {Owner, Op}

\* the least and the largest amount, paid into and settled from K1
AdminAmounts == {1, MaxAmount}

AdminPostArgs == {<< USDC, a, P1 >> : a \in AdminAmounts}

AdminBulkArgs == {<< USDC, P1, a, 1 >> : a \in AdminAmounts}

AdminRouteArgs == << USDC, P1, USDH_ASSET, DEST, R1 >>

AdminClaimSigs(token, providerId, amount, timeoutSeconds) ==
    {NoSig, Sign(pool.routes[<< token, providerId >>].recipient,
                 getClaimMessageHash(pool.nonces, token, providerId, amount,
                                     timeoutSeconds))}

AdminRouteSigs(a) ==
    {NoSig, Sign(a[5], getRouteMessageHash(a[1], a[2], a[3], a[4], a[5]))}

\* caps are set and lifted on K1
AdminCapArgs == {<< USDC, P1, c >> : c \in {0, MaxCap}}

\* who pays is of no consequence to postPayment
Payer == IF pc = "idle" THEN Op ELSE Gateway

NextAdmin ==
    \/ Live /\ \E a \in AdminPostArgs : postPayment(Payer, a[1], a[2], a[3], TRUE)
    \/ Live /\ \E caller \in CallersNow, signature \in AdminRouteSigs(AdminRouteArgs) :
          setRoute(caller, AdminRouteArgs[1], AdminRouteArgs[2], AdminRouteArgs[3],
                   AdminRouteArgs[4], AdminRouteArgs[5], signature)
    \/ Live /\ \E caller \in CallersNow, a \in AdminBulkArgs :
          \E signature \in AdminClaimSigs(a[1], a[2], a[3], a[4]) :
              bulkTeleport(caller, a[1], a[2], a[3], a[4], signature)
    \/ Live /\ TeleportReturns
    \/ Live /\ TeleportReverts
    \/ Live /\ \E caller \in CallersNow, a \in AdminCapArgs :
          setMaxCredits(caller, a[1], a[2], a[3])
    \/ Live /\ \E caller \in CallersNow : emergencyPause(caller)
    \/ Live /\ \E caller \in CallersNow : unpause(caller)
    \/ Live /\ \E caller \in CallersNow, account \in Accounts :
          grantCreditManagerRole(caller, account)
    \/ Live /\ \E caller \in CallersNow, account \in Accounts :
          revokeCreditManagerRole(caller, account)
    \/ Live /\ \E caller \in CallersNow, account \in Accounts :
          grantOperatorRole(caller, account)
    \/ Live /\ \E caller \in CallersNow, account \in Accounts :
          revokeOperatorRole(caller, account)
    \/ Live /\ \E caller \in CallersNow, newOwner \in Accounts :
          transferOwnership(caller, newOwner)
    \/ Live /\ \E n \in {1, MaxFund} : FundUSDh(n)

SpecAdmin == Init /\ [][NextAdmin]_vars

(***************************************************************************)
(* The pool with the owner's setter of credits: credits are set on K1,     *)
(* paid in and settled on a role, under caps and pauses, and the ownership *)
(* is handed over.  The credits are then no longer what was paid in less   *)
(* what was settled.                                                       *)
(***************************************************************************)
\* credits are set on K1: to nothing, to the least and to the largest amount
CreditArgs ==
    {<< USDC, P1, c >> : c \in {0} \cup AdminAmounts}
    \cup {<< NullAddr, P1, 1 >>, << USDC, NullId, 1 >>}

NextCredits ==
    \/ Live /\ \E caller \in CallersNow, a \in CreditArgs :
          setCredits(caller, a[1], a[2], a[3])
    \/ Live /\ \E a \in AdminPostArgs : postPayment(Payer, a[1], a[2], a[3], TRUE)
    \/ Live /\ \E caller \in CallersNow :
          setRoute(caller, AdminRouteArgs[1], AdminRouteArgs[2], AdminRouteArgs[3],
                   AdminRouteArgs[4], AdminRouteArgs[5], NoSig)
    \/ Live /\ \E caller \in CallersNow, a \in AdminBulkArgs :
          bulkTeleport(caller, a[1], a[2], a[3], a[4], NoSig)
    \/ Live /\ TeleportReturns
    \/ Live /\ TeleportReverts
    \/ Live /\ \E caller \in CallersNow, a \in AdminCapArgs :
          setMaxCredits(caller, a[1], a[2], a[3])
    \/ Live /\ \E caller \in CallersNow : emergencyPause(caller)
    \/ Live /\ \E caller \in CallersNow : unpause(caller)
    \/ Live /\ \E caller \in CallersNow, newOwner \in Accounts :
          transferOwnership(caller, newOwner)
    \/ Live /\ FundUSDh(MaxFund)

SpecCredits == Init /\ [][NextCredits]_vars

(***************************************************************************)
(* The pool with routes that are replaced: K1 is routed, and routed again, *)
(* to one of several (assetId, destChain, recipient), by the owner or on   *)
(* the recipient's signature, also from inside teleport (setRoute is not   *)
(* nonReentrant), and what is paid into K1 is settled along the route of   *)
(* the moment.                                                             *)
(***************************************************************************)
RouteChoices ==
    {<< USDC, P1, USDH_ASSET, DEST, R1 >>,
     << USDC, P1, USDH_ASSET2, DEST2, R2 >>,
     << USDC, P1, USDH_ASSET2, DEST, R1 >>}

NextRoutes ==
    \/ Live /\ \E caller \in CallersNow, a \in RouteChoices :
          \E signature \in AdminRouteSigs(a) :
              setRoute(caller, a[1], a[2], a[3], a[4], a[5], signature)
    \/ Live /\ \E a \in AdminPostArgs : postPayment(Payer, a[1], a[2], a[3], TRUE)
    \/ Live /\ \E caller \in CallersNow, a \in AdminBulkArgs :
          \E signature \in AdminClaimSigs(a[1], a[2], a[3], a[4]) :
              bulkTeleport(caller, a[1], a[2], a[3], a[4], signature)
    \/ Live /\ TeleportReturns
    \/ Live /\ TeleportReverts
    \/ Live /\ \E caller \in CallersNow : emergencyPause(caller)
    \/ Live /\ \E caller \in CallersNow : unpause(caller)
    \/ Live /\ \E n \in {1, MaxFund} : FundUSDh(n)

SpecRoutes == Init /\ [][NextRoutes]_vars

(***************************************************************************)
(* The decimal conversion on its own: scaleAmount, usdcToUSDh and          *)
(* usdhToUSDC are pure and public.  An amount and two decimals are drawn,  *)
(* the amount is scaled, and what comes out is scaled back.  `frame` holds *)
(* the call; the pool stands by as it was constructed.                     *)
(***************************************************************************)
MaxScale == 3

\* 999_999_999_999_999_999
RECURSIVE Nines(_)
Nines(k) == IF k = 0 THEN << >> ELSE << 9 >> \o Nines(k - 1)

\* the largest amount whose product with 10^12 is below 2^256
LastUnwrapped == BigDivPow10(Two256, USDH_DECIMALS - USDC_DECIMALS)

ScaleInputs ==
    {ToBig(n) : n \in 0..MaxScale}
    \cup {ToBig(1000000), Nines(18)}
    \cup {BigMulPow10(ToBig(n), 12) : n \in 1..MaxScale}
    \cup {BigAdd(BigMulPow10(ToBig(n), 12), << 1 >>) : n \in 1..MaxScale}
    \cup {LastUnwrapped, BigAdd(LastUnwrapped, << 1 >>),
          BigMulPow10(LastUnwrapped, 12), MaxUint256}

\* uint8 decimals: none, USDC's, USD.h's, and one more than scaleAmount takes
ScaleDecimals == {0, USDC_DECIMALS, USDH_DECIMALS, MAX_DECIMALS + 1}

ScaleCall(fn, amount, fromDecimals, toDecimals) ==
    [fn |-> fn, amount |-> amount, fromDecimals |-> fromDecimals,
     toDecimals |-> toDecimals, reverted |-> FALSE, result |-> BigZero,
     back |-> BigZero]

InitScale ==
    /\ pool = Constructed(Owner)
    /\ ext = [usdhBal |-> BigZero,
              allowance |-> BigZero,
              custody |-> 0,
              teleportCount |-> 0,
              totalTeleported |-> [a \in AssetIds |-> BigZero],
              bulkTeleported |-> 0]
    /\ pc = "input"
    /\ \E amount \in ScaleInputs, f \in ScaleDecimals, t \in ScaleDecimals :
          frame = ScaleCall("none", amount, f, t)
    /\ saved = NoSnapshot
    /\ last = Done("constructor", "ok", NoKey, "none", 0, FALSE)
    /\ deposited = [k \in AllKeys |-> 0]
    /\ settled = [k \in AllKeys |-> 0]

\* scaleAmount(amount, fromDecimals, toDecimals) is called
ScaleAmountCall ==
    /\ pc = "input"
    /\ pc' = "scaled"
    /\ frame' = IF ScaleAmountReverts(frame.fromDecimals, frame.toDecimals)
                THEN [frame EXCEPT !.fn = "scaleAmount", !.reverted = TRUE]
                ELSE [frame EXCEPT !.fn = "scaleAmount",
                                   !.result = scaleAmount(frame.amount,
                                                          frame.fromDecimals,
                                                          frame.toDecimals)]
    /\ UNCHANGED << pool, ext, saved, last, deposited, settled >>

\* usdcToUSDh(amount) is called
UsdcToUSDhCall ==
    /\ pc = "input"
    /\ frame.fromDecimals = USDC_DECIMALS
    /\ frame.toDecimals = USDH_DECIMALS
    /\ pc' = "scaled"
    /\ frame' = [frame EXCEPT !.fn = "usdcToUSDh",
                              !.result = usdcToUSDh(frame.amount)]
    /\ UNCHANGED << pool, ext, saved, last, deposited, settled >>

\* usdhToUSDC(amount) is called
UsdhToUSDCCall ==
    /\ pc = "input"
    /\ frame.fromDecimals = USDH_DECIMALS
    /\ frame.toDecimals = USDC_DECIMALS
    /\ pc' = "scaled"
    /\ frame' = [frame EXCEPT !.fn = "usdhToUSDC",
                              !.result = usdhToUSDC(frame.amount)]
    /\ UNCHANGED << pool, ext, saved, last, deposited, settled >>

\* what came out is scaled back: scaleAmount(result, toDecimals, fromDecimals)
ScaleBackCall ==
    /\ pc = "scaled"
    /\ ~frame.reverted
    /\ pc' = "back"
    /\ frame' = [frame EXCEPT !.back = scaleAmount(frame.result, frame.toDecimals,
                                                   frame.fromDecimals)]
    /\ UNCHANGED << pool, ext, saved, last, deposited, settled >>

NextScale ==
    \/ ScaleAmountCall
    \/ UsdcToUSDhCall
    \/ UsdhToUSDCCall
    \/ ScaleBackCall

SpecScale == InitScale /\ [][NextScale]_vars

(***************************************************************************)
(* The pool with accounts that sign for themselves: the owner, R1 and an   *)
(* account without role call setRoute and bulkTeleport on K1 with no       *)
(* signature or with their own, over the digest of the call or, for a      *)
(* settlement, over the digest at a nonce the key has left behind.  The    *)
(* gateway, from inside teleport, passes on a signature of any of them.    *)
(***************************************************************************)
Members == {Owner, R1, Op}

MembersNow == IF pc = "idle" THEN Members ELSE {Gateway}

\* whose signatures a caller can bring
SignersFor(caller) == IF caller \in Members THEN {caller} ELSE Members

\* K1 is routed to R1 or to the account without role
MemberRoutes ==
    {<< USDC, P1, USDH_ASSET, DEST, R1 >>,
     << USDC, P1, USDH_ASSET, DEST, Op >>}

\* K1 is settled for the least and the largest amount, within a short and a
\* longer timeout
MemberBulkArgs ==
    {<< USDC, P1, a, t >> : a \in AdminAmounts, t \in {1, MaxTimeout + 1}}

MemberRouteSigs(caller, a) ==
    {NoSig}
    \cup {Sign(s, getRouteMessageHash(a[1], a[2], a[3], a[4], a[5])) :
             s \in SignersFor(caller)}

MemberClaimSigs(caller, a) ==
    {NoSig}
    \cup {Sign(s, ClaimMessage(a[1], a[2], a[3], a[4], n, ChainId, Self)) :
             s \in SignersFor(caller), n \in 0..pool.nonces[<< a[1], a[2] >>]}

NextMembers ==
    \/ Live /\ \E caller \in MembersNow, a \in MemberRoutes :
          \E signature \in MemberRouteSigs(caller, a) :
              setRoute(caller, a[1], a[2], a[3], a[4], a[5], signature)
    \/ Live /\ \E a \in AdminPostArgs : postPayment(Payer, a[1], a[2], a[3], TRUE)
    \/ Live /\ \E caller \in MembersNow, a \in MemberBulkArgs :
          \E signature \in MemberClaimSigs(caller, a) :
              bulkTeleport(caller, a[1], a[2], a[3], a[4], signature)
    \/ Live /\ TeleportReturns
    \/ Live /\ TeleportReverts
    \/ Live /\ FundUSDh(MaxFund)

SpecMembers == Init /\ [][NextMembers]_vars

(***************************************************************************)
(* The pool with amounts as large as a uint256 holds.  The credits of a    *)
(* key and the amounts of setCredits and bulkTeleport are held as digits,  *)
(* as the amounts of the conversion are; the handlers are the ones above,  *)
(* with the comparisons and the subtraction made on digits.  The owner     *)
(* sets the credits of K1 and routes it, the pool is funded, and K1 is     *)
(* settled on a role or on the recipient's signature.  What has been paid  *)
(* in and settled is not summed up here.                                   *)
(***************************************************************************)
\* the least amount, the largest amount whose conversion is below 2^256,
\* the amount after it, and the largest uint256
LargeAmounts ==
    {ToBig(1), LastUnwrapped, BigAdd(LastUnwrapped, << 1 >>), MaxUint256}

\* how many settlements are followed
MaxSettlements == 1

InitLarge ==
    /\ pool = [Constructed(Owner) EXCEPT !.credits = [k \in AllKeys |-> BigZero]]
    /\ ext = [usdhBal |-> BigZero,
              allowance |-> BigZero,
              custody |-> 0,
              teleportCount |-> 0,
              totalTeleported |-> [a \in AssetIds |-> BigZero],
              bulkTeleported |-> 0]
    /\ pc = "idle"
    /\ frame = NoFrame
    /\ saved = NoSnapshot
    /\ last = Done("constructor", "ok", NoKey, "none", 0, FALSE)
    /\ deposited = [k \in AllKeys |-> 0]
    /\ settled = [k \in AllKeys |-> 0]

BulkTeleportLargeRun(caller, token, providerId, amount, timeoutSeconds, signature) ==
    LET key == << token, providerId >>
        r == pool.routes[key]
        isAuthorized == BulkIsAuthorized(caller)
        signer == BulkSigner(token, providerId, amount, timeoutSeconds, signature)
        p0 == Entered(pool)
        p1 == IF isAuthorized THEN p0 ELSE ConsumeSignature(p0, key, signature)
        usdhAmount == usdcToUSDh(amount)
    IN  IF pool.paused THEN Out("EnforcedPause", pool, ext)
        ELSE IF pool.entered THEN Out("ReentrancyGuardReentrantCall", pool, ext)
        ELSE IF ~RouteIsSet(r) THEN Out("route not set", p0, ext)
        ELSE IF ~isAuthorized /\ signature.length = 0
             THEN Out("Signature required for non-operators", p0, ext)
        ELSE IF ~isAuthorized /\ RecoverReverts(signature)
             THEN Out("ECDSAInvalidSignatureLength", p0, ext)
        ELSE IF ~isAuthorized /\ signer # r.recipient
             THEN Out("Invalid signature from recipient", p0, ext)
        ELSE IF ~isAuthorized /\ signature \in pool.usedSignatures
             THEN Out("Signature already used", p0, ext)
        ELSE IF amount = BigZero THEN Out("zero", p1, ext)
        ELSE IF token = NullAddr THEN Out("Invalid token address", p1, ext)
        ELSE IF providerId = NullId THEN Out("Invalid provider ID", p1, ext)
        ELSE IF ~TimeoutIsValid(timeoutSeconds)
             THEN Out("Invalid timeout", p1, ext)
        ELSE IF BigLess(pool.credits[key], amount)
             THEN Out("insufficient credits", p1, ext)
        ELSE IF pool.emergencyPaused
             THEN Out("Contract is emergency paused", p1, ext)
        ELSE IF pool.maxCredits[key] > 0
                    /\ BigLess(ToBig(pool.maxCredits[key]), amount)
             THEN Out("Amount exceeds max credits", p1, ext)
        ELSE IF ~HasLiquidity(amount, usdhAmount)
             THEN Out("Insufficient USDh balance", p1, ext)
        ELSE Out("ok", [p1 EXCEPT !.credits[key] = BigSub(@, amount)],
                 ApproveGateway(ext, usdhAmount))

BulkFrameLarge(caller, token, providerId, amount, timeoutSeconds, signature) ==
    LET r == pool.routes[<< token, providerId >>]
    IN  [op |-> "bulkTeleport", caller |-> caller,
         key |-> << token, providerId >>, amount |-> amount,
         path |-> IF BulkIsAuthorized(caller) THEN "role" ELSE "sig",
         signature |-> signature, r |-> r,
         p |-> TeleportParams(r, usdcToUSDh(amount), timeoutSeconds)]

setCreditsLarge(caller, token, providerId, amount) ==
    /\ FinishCall("setCredits", SetCreditsRun(caller, token, providerId, amount),
                  << token, providerId >>, "role", FALSE,
                  << token, providerId, amount >>, NoSig, caller)
    /\ UNCHANGED << deposited, settled >>

bulkTeleportLarge(caller, token, providerId, amount, timeoutSeconds, signature) ==
    LET out == BulkTeleportLargeRun(caller, token, providerId, amount,
                                    timeoutSeconds, signature)
        path == IF BulkIsAuthorized(caller) THEN "role" ELSE "sig"
    IN  IF out.res # "ok"
        THEN /\ FinishCall("bulkTeleport", out, << token, providerId >>, path,
                           signature \in pool.usedSignatures,
                           << token, providerId, amount, timeoutSeconds >>,
                           signature, caller)
             /\ UNCHANGED << deposited, settled >>
        ELSE /\ Live
             /\ pc = "idle"
             /\ ext.bulkTeleported < MaxSettlements
             /\ pool' = out.pool
             /\ ext' = out.ext
             /\ pc' = "teleport"
             /\ frame' = BulkFrameLarge(caller, token, providerId, amount,
                                        timeoutSeconds, signature)
             /\ saved' = [pool |-> pool, ext |-> ext]
             /\ last' = DoneCall("bulkTeleport", "calling teleport",
                                 << token, providerId >>, path, 0, FALSE,
                                 << token, providerId, amount, timeoutSeconds >>,
                                 signature, caller)
             /\ UNCHANGED << deposited, settled >>

TeleportReturnsLarge ==
    /\ Live
    /\ pc = "teleport"
    /\ frame.p.amount # BigZero
    /\ frame.p.to # Bytes32Zero
    /\ pool' = [pool EXCEPT !.entered = FALSE]
    /\ ext' = [ext EXCEPT !.teleportCount = @ + 1,
                          !.totalTeleported[frame.p.assetId] =
                              Wrap256(BigAdd(@, frame.p.amount)),
                          !.bulkTeleported = @ + 1]
    /\ pc' = "idle"
    /\ frame' = NoFrame
    /\ saved' = NoSnapshot
    /\ last' = DoneCall("bulkTeleport", "ok", frame.key, frame.path, 0, FALSE,
                        BulkTeleported(frame.key[1], frame.key[2], frame.amount,
                                       frame.r.recipient, frame.r.destChain),
                        NoSig, NullAddr)
    /\ UNCHANGED << deposited, settled >>

NextLarge ==
    \/ Live /\ \E caller \in CallersNow, amount \in {BigZero} \cup LargeAmounts :
          setCreditsLarge(caller, USDC, P1, amount)
    \/ Live /\ \E caller \in CallersNow :
          setRoute(caller, AdminRouteArgs[1], AdminRouteArgs[2], AdminRouteArgs[3],
                   AdminRouteArgs[4], AdminRouteArgs[5], NoSig)
    \/ Live /\ \E caller \in CallersNow, amount \in LargeAmounts :
          \E signature \in AdminClaimSigs(USDC, P1, amount, 1) :
              bulkTeleportLarge(caller, USDC, P1, amount, 1, signature)
    \/ Live /\ TeleportReturnsLarge
    \/ Live /\ TeleportReverts
    \/ Live /\ FundUSDh(MaxFund)

SpecLarge == InitLarge /\ [][NextLarge]_vars

(***************************************************************************)
(* Properties.                                                             *)
(***************************************************************************)
\* the ledger proper: the pool's storage without the reentrancy flag
Ledger(p) == [p EXCEPT !.entered = FALSE]

\* C1: on every key the credits equal the deposits accepted minus the
\* settlements that succeeded (less the amount of a settlement that is inside
\* teleport), and are never negative.
C1_BalanceIsDepositsMinusSettlements ==
    \A k \in AllKeys :
        /\ pool.credits[k] >= 0
        /\ pool.credits[k] + InFlight(k) = deposited[k] - settled[k]
        /\ CommittedPool.credits[k] = deposited[k] - settled[k]

C1_Witness ==
    /\ pc = "idle"
    /\ deposited[K1] = 2
    /\ settled[K1] = 1
    /\ pool.credits[K1] = 1

\* C2: on every key the amounts dispatched, the one inside teleport included,
\* never exceed the deposits accepted, whatever the gateway calls back into
\* the pool and whether or not teleport reverts.
C2_NoDoubleSettlement ==
    \A k \in AllKeys : settled[k] + InFlight(k) <= deposited[k]

\* the gateway has tried to settle again from inside a teleport that carries
\* all that was deposited on the key
C2_Witness ==
    /\ pc = "teleport"
    /\ last.op = "bulkTeleport"
    /\ last.depth = 1
    /\ last.res = "ReentrancyGuardReentrantCall"
    /\ settled[frame.key] + frame.amount = deposited[frame.key]

\* C3: while teleport runs the credits are already debited and, on the
\* signature path, the digest is recorded and the nonce incremented; the
\* return from teleport writes nothing to the ledger.
C3_MutateBeforeDispatch ==
    /\ [](pc = "teleport" =>
            /\ pool.credits[frame.key] =
                   saved.pool.credits[frame.key] - frame.amount
            /\ frame.path = "sig" =>
                   /\ frame.signature \in pool.usedSignatures
                   /\ pool.nonces[frame.key] = saved.pool.nonces[frame.key] + 1)
    /\ [][(pc = "teleport" /\ pc' = "idle" /\ last'.res = "ok") =>
              Ledger(pool') = Ledger(pool)]_vars

C3_Witness ==
    /\ pc = "teleport"
    /\ frame.path = "sig"
    /\ frame.amount = 2
    /\ pool.credits[frame.key] = 0
    /\ pool.nonces[frame.key] = 1

\* C4 (as claimed): a bulkTeleport from a caller without role, on a key whose
\* route is set, outside teleport and unpaused, that brings a signature already
\* consumed, is rejected with "Signature already used".
C4_ReplayRejectedAsAlreadyUsed ==
    (/\ last.op = "bulkTeleport"
     /\ last.path = "sig"
     /\ last.replay
     /\ last.depth = 0
     /\ ~pool.paused
     /\ pool.routes[last.key].set) => last.res = "Signature already used"

\* a bulkTeleport that has settled after its caller passed on a signature
SettledOnSignature(k) ==
    /\ pc = "teleport"
    /\ last'.op = "bulkTeleport"
    /\ last'.res = "ok"
    /\ last'.path = "sig"
    /\ last'.key = k

\* C5: every nonce is 0 at first; a step changes the nonce of a key, by
\* exactly 1 upwards, if and only if it completes a bulkTeleport on that key
\* whose caller passed on a signature: no failed call, no call that passed on
\* its role, no postPayment, setRoute or call on another key changes it.
C5_NonceSteps ==
    /\ \A k \in AllKeys : pool.nonces[k] = 0
    /\ [][\A k \in AllKeys :
             CommittedPool'.nonces[k] =
                 CommittedPool.nonces[k] + (IF SettledOnSignature(k) THEN 1 ELSE 0)]_vars

\* K1 settled once on a signature, K2 settled on a role
C5_Witness ==
    /\ pc = "idle"
    /\ pool.nonces[K1] = 1
    /\ settled[K1] = 1
    /\ pool.nonces[K2] = 0
    /\ settled[K2] = 1

\* the signature of signer s over this call's digest at nonce n
ClaimSignature(s, args, n, chain, this) ==
    Sign(s, ClaimMessage(args[1], args[2], args[3], args[4], n, chain, this))

\* a step that is a bulkTeleport of a caller without role, up to its failure
\* or its call into the gateway
SignedBulkStep ==
    /\ last'.op = "bulkTeleport"
    /\ last'.path = "sig"
    /\ last'.res \notin {"ok", "teleport reverted"}

\* C6: a bulkTeleport from a caller without role gets as far as teleport only
\* with the signature of the route's recipient over this call's token,
\* providerId, amount and timeout, the key's nonce, this chain and this
\* contract; with any other signature it fails and nothing changes.
C6_SignatureBindsCall ==
    [][SignedBulkStep =>
         LET k == last'.key
             exact == ClaimSignature(pool.routes[k].recipient, last'.args,
                                     pool.nonces[k], ChainId, Self)
         IN  /\ last'.res = "calling teleport" => last'.sig = exact
             /\ last'.sig # exact =>
                    /\ last'.res # "calling teleport"
                    /\ pool' = pool
                    /\ ext' = ext
                    /\ pc' = pc]_vars

\* the recipient's signature over the call at the nonce before is rejected
C6_Witness ==
    /\ last.op = "bulkTeleport"
    /\ last.res = "Invalid signature from recipient"
    /\ pool.nonces[last.key] = 1
    /\ pool.credits[last.key] >= last.args[3]
    /\ last.sig = ClaimSignature(pool.routes[last.key].recipient, last.args, 0,
                                 ChainId, Self)

\* the arguments of a setRoute that passes the four validation requires
RouteArgsValid(args) ==
    /\ args[1] # NullAddr
    /\ args[5] # NullAddr
    /\ args[3] # NullId
    /\ args[4] # EmptyBytes

\* the signature of the recipient named in the arguments over the SET_ROUTE
\* digest of these arguments
RouteSignature(args) ==
    Sign(args[5], RouteMessage(args[1], args[2], args[3], args[4], args[5],
                               ChainId, Self))

RouteAuthErrors ==
    {"Signature required for non-owners", "Invalid signature from recipient"}

\* C7 (as claimed): an unpaused setRoute with valid arguments and no
\* signature, from a caller who does not hold ADMIN_ROLE, fails with
\* "Signature required for non-owners".
C7_NonAdminNeedsSignature ==
    (/\ last.op = "setRoute"
     /\ ~pool.paused
     /\ RouteArgsValid(last.args)
     /\ last.caller \notin pool.admins
     /\ last.sig = NoSig) => last.res \in RouteAuthErrors

\* C7 (amended): an unpaused setRoute with valid arguments from a caller who
\* neither holds ADMIN_ROLE nor is the owner fails with an authorization error
\* and leaves the routes as they were when it brings no signature or a
\* 65-byte signature other than the recipient's over the SET_ROUTE digest;
\* with that signature it succeeds and the route is set as given.
C7_SetRouteNeedsRecipientSignature ==
    [][(/\ last'.op = "setRoute"
        /\ ~pool.paused
        /\ RouteArgsValid(last'.args)
        /\ last'.caller \notin pool.admins
        /\ last'.caller # pool.owner) =>
         LET a == last'.args
             k == << a[1], a[2] >>
         IN  /\ (last'.sig.length \in {0, 65} /\ last'.sig # RouteSignature(a)) =>
                    /\ last'.res \in RouteAuthErrors
                    /\ pool'.routes = pool.routes
             /\ last'.sig = RouteSignature(a) =>
                    /\ last'.res = "ok"
                    /\ pool'.routes[k] =
                           [assetId |-> a[3], destChain |-> a[4],
                            recipient |-> a[5], set |-> TRUE]]_vars

\* a caller without role has set the route of K2 on the recipient's signature
C7_Witness ==
    /\ last.op = "setRoute"
    /\ last.res = "ok"
    /\ last.path = "sig"
    /\ last.key = K2
    /\ last.sig = RouteSignature(last.args)
    /\ pool.routes[K2].set
    /\ pool.routes[K2].recipient = R2

\* a bulkTeleport that nothing stops before the "insufficient credits" require
BulkValidUpToCredits ==
    LET a == last'.args
        k == last'.key
    IN  /\ ~pool.paused
        /\ ~pool.entered
        /\ pool.routes[k].set
        /\ last'.path = "sig" =>
               last'.sig = ClaimSignature(pool.routes[k].recipient, a,
                                          pool.nonces[k], ChainId, Self)
        /\ a[1] # NullAddr
        /\ a[2] # NullId
        /\ a[4] > 0

\* C8: a bulkTeleport for more than the credits of its key does not reach
\* teleport and leaves the credits as they were; when its caller is authorized
\* (by role or by signature) and nothing else is wrong with the call, it
\* fails with "insufficient credits".
C8_InsufficientCredits ==
    [][(/\ last'.op = "bulkTeleport"
        /\ last'.res \notin {"ok", "teleport reverted"}
        /\ last'.args[3] > pool.credits[last'.key]) =>
         /\ last'.res # "calling teleport"
         /\ pool'.credits = pool.credits
         /\ BulkValidUpToCredits => last'.res = "insufficient credits"]_vars

\* a signed request for 2 on a key that holds 1
C8_Witness ==
    /\ last.op = "bulkTeleport"
    /\ last.res = "insufficient credits"
    /\ last.path = "sig"
    /\ last.args[3] = 2
    /\ pool.credits[last.key] = 1

\* C9: a call that fails leaves the pool's storage, the token balances and
\* allowance and the gateway's counters as they were before it, and no
\* teleport runs for it; when teleport itself fails, they are as they were
\* before the bulkTeleport that called it.
C9_AllOrNothing ==
    [][last'.res \notin {"ok", "calling teleport"} =>
         /\ deposited' = deposited
         /\ settled' = settled
         /\ IF last'.res = "teleport reverted"
            THEN /\ pool' = saved.pool
                 /\ ext' = saved.ext
                 /\ pc' = "idle"
            ELSE /\ pool' = pool
                 /\ ext' = ext
                 /\ pc' = pc
                 /\ frame' = frame]_vars

\* the signature verified, the timeout was 0: the signature is not recorded
\* and the nonce has not moved
C9_Witness ==
    /\ last.op = "bulkTeleport"
    /\ last.res = "Invalid timeout"
    /\ last.path = "sig"
    /\ last.sig = ClaimSignature(pool.routes[last.key].recipient, last.args,
                                 pool.nonces[last.key], ChainId, Self)
    /\ last.sig \notin pool.usedSignatures
    /\ pool.nonces[last.key] = 0

\* C10: when teleport fails, the credits, nonces, used signatures, allowance
\* and the count of BulkTeleported events are those from before the
\* bulkTeleport; when teleport returns, the bulkTeleport is over in the same
\* step: the credits are debited, the event is emitted, the pool is idle and
\* open to the next call.
C10_DispatchIsSynchronous ==
    [][(pc = "teleport" /\ pc' = "idle") =>
         LET k == frame.key
         IN  IF last'.res = "teleport reverted"
             THEN /\ pool'.credits = saved.pool.credits
                  /\ pool'.nonces = saved.pool.nonces
                  /\ pool'.usedSignatures = saved.pool.usedSignatures
                  /\ ext'.allowance = saved.ext.allowance
                  /\ ext'.bulkTeleported = saved.ext.bulkTeleported
                  /\ settled' = settled
             ELSE /\ last'.res = "ok"
                  /\ pool'.credits[k] = saved.pool.credits[k] - frame.amount
                  /\ ext'.bulkTeleported = saved.ext.bulkTeleported + 1
                  /\ settled'[k] = settled[k] + frame.amount
                  /\ ~pool'.entered
                  /\ frame' = NoFrame]_vars

\* the first settlement ever, on a signature, was rejected by the gateway:
\* the approval it had given is gone with it
C10_Witness ==
    /\ last.op = "bulkTeleport"
    /\ last.res = "teleport reverted"
    /\ last.path = "sig"
    /\ ext.allowance = BigZero
    /\ pool.usedSignatures = {}
    /\ pool.nonces[last.key] = 0
    /\ pool.credits[last.key] = deposited[last.key]
    /\ deposited[last.key] > 0

(***************************************************************************)
(* C11.  The pause.                                                        *)
(***************************************************************************)
\* what unpause leaves of a paused pool
Unpaused(p) == [p EXCEPT !.paused = FALSE, !.emergencyPaused = FALSE]

\* C11: while the pool is paused every postPayment and every bulkTeleport, on
\* a role or on a signature, fails with EnforcedPause and writes nothing; a
\* pause sets, and unpause clears, the two pause flags and nothing else, so
\* the pool unpause gives back is the pool that was paused, whatever was
\* tried in between; and no call to an unpaused pool is rejected for a pause
C11_PausedCallsFailWithoutTrace ==
    /\ [](pool.paused <=> pool.emergencyPaused)
    /\ [][/\ (pool.paused /\ last'.op \in {"postPayment", "bulkTeleport"}) =>
                /\ last'.res = "EnforcedPause"
                /\ pool' = pool
                /\ ext' = ext
                /\ deposited' = deposited
                /\ settled' = settled
          /\ (last'.op = "emergencyPause" /\ last'.res = "ok") =>
                /\ ~pool.paused
                /\ Unpaused(pool') = pool
                /\ pool'.paused
                /\ ext' = ext
          /\ (last'.op = "unpause" /\ last'.res = "ok") =>
                /\ pool.paused
                /\ pool' = Unpaused(pool)
                /\ ext' = ext
          /\ (~pool.paused /\ last'.op \in {"postPayment", "bulkTeleport"}) =>
                last'.res \notin {"EnforcedPause", "Contract is emergency paused"}
         ]_vars

\* a settlement the recipient has signed, with credits and liquidity behind
\* it, is turned away because the pool is paused
C11_Witness ==
    /\ last.op = "bulkTeleport"
    /\ last.res = "EnforcedPause"
    /\ last.sig # NoSig
    /\ last.sig.signer = pool.routes[last.key].recipient
    /\ pool.paused
    /\ pool.credits[last.key] > 0
    /\ ext.usdhBal # BigZero
    /\ pool.usedSignatures = {}
    /\ pool.nonces[last.key] = 0

(***************************************************************************)
(* C12.  A settlement needs a route and credits.                           *)
(***************************************************************************)
\* C12: a bulkTeleport gets as far as the gateway only on a key whose route
\* is set and whose credits are positive; on a key whose route is not set it
\* never does, on a role or on a signature and whatever credits the key
\* holds: it fails with "route not set" (or earlier with the modifiers'
\* errors when the pool is paused or the call re-enters) and writes nothing
C12_SettlementNeedsRouteAndCredits ==
    [][(last'.op = "bulkTeleport" /\ pc = "idle") =>
         LET k == last'.key
         IN  /\ last'.res = "calling teleport" =>
                  /\ pool.routes[k].set
                  /\ pool.credits[k] > 0
                  /\ pool.credits[k] >= last'.args[3]
             /\ ~pool.routes[k].set =>
                  /\ last'.res = IF pool.paused THEN "EnforcedPause"
                                 ELSE "route not set"
                  /\ pool' = pool
                  /\ ext' = ext
                  /\ pc' = "idle"
                  /\ settled' = settled]_vars

\* a key that holds credits and has no route: a settlement on a signature
\* over the very call is refused because the route is not set
C12_Witness ==
    /\ last.op = "bulkTeleport"
    /\ last.res = "route not set"
    /\ last.sig # NoSig
    /\ last.sig.msg = getClaimMessageHash(pool.nonces, last.args[1], last.args[2],
                                          last.args[3], last.args[4])
    /\ pool.credits[last.key] >= last.args[3]
    /\ last.args[3] > 0
    /\ ~pool.routes[last.key].set
    /\ ext.usdhBal # BigZero

C15_DepositCeiling ==
    [][(last'.op = "postPayment" /\ ~pool.paused /\ ~pool.entered
            /\ last'.args[1] # NullAddr /\ last'.args[3] # NullId
            /\ last'.args[2] > 0) =>
         LET k == last'.key
             cap == pool.maxCredits[k]
             newCredits == pool.credits[k] + last'.args[2]
         IN  /\ (cap > 0 /\ newCredits > cap) =>
                  /\ last'.res = "Exceeds max credits"
                  /\ pool' = pool
                  /\ ext' = ext
             /\ (cap = 0 \/ newCredits <= cap) =>
                  /\ last'.res # "Exceeds max credits"
                  /\ last'.res = IF last'.args[4] THEN "ok" ELSE "Transfer failed"
        ]_vars

\* a payment that would take the credits of a capped key above its cap is
\* turned away, although its transfer would have gone through
C15_Witness ==
    /\ last.op = "postPayment"
    /\ last.res = "Exceeds max credits"
    /\ last.args[4]
    /\ pool.maxCredits[last.key] > 0
    /\ pool.credits[last.key] + last.args[2] > pool.maxCredits[last.key]
    /\ pool.credits[last.key] <= pool.maxCredits[last.key]


\* C16: with a cap above 0 on the key, a bulkTeleport for more than the cap
\* does not reach the gateway and writes nothing, also when the key's credits
\* cover the amount: when the call is authorized and nothing else is wrong
\* with it, it fails with "Amount exceeds max credits"; with a cap of 0, or
\* an amount within the cap, no bulkTeleport is rejected for the cap
C16_SettlementCeiling ==
    [][(last'.op = "bulkTeleport" /\ pc = "idle") =>
         LET k == last'.key
             amount == last'.args[3]
             cap == pool.maxCredits[k]
         IN  /\ (cap > 0 /\ amount > cap) =>
                  /\ last'.res # "calling teleport"
                  /\ pool' = pool
                  /\ ext' = ext
                  /\ pc' = "idle"
                  /\ (BulkValidUpToCredits /\ pool.credits[k] >= amount) =>
                         last'.res = "Amount exceeds max credits"
             /\ (cap = 0 \/ amount <= cap) =>
                  last'.res # "Amount exceeds max credits"
        ]_vars

\* the key holds the credits the settlement asks for, the pool holds the
\* USD.h, and the settlement is refused for being above the cap
C16_Witness ==
    /\ last.op = "bulkTeleport"
    /\ last.res = "Amount exceeds max credits"
    /\ pool.maxCredits[last.key] > 0
    /\ last.args[3] > pool.maxCredits[last.key]
    /\ pool.credits[last.key] >= last.args[3]
    /\ BigLeq(usdcToUSDh(ToBig(last.args[3])), ext.usdhBal)
    /\ pool.routes[last.key].set

(***************************************************************************)
(* C13.  The USD.h the pool must hold.                                     *)
(***************************************************************************)
\* a bulkTeleport that nothing stops before the "Insufficient USDh balance"
\* require
BulkValidUpToLiquidity ==
    /\ BulkValidUpToCredits
    /\ last'.args[3] > 0
    /\ pool.credits[last'.key] >= last'.args[3]
    /\ (pool.maxCredits[last'.key] > 0 =>
            last'.args[3] <= pool.maxCredits[last'.key])

RolesOf(p, account) ==
    {r \in {"ADMIN_ROLE", "CREDIT_MANAGER_ROLE", "OPERATOR_ROLE"} :
        CASE r = "ADMIN_ROLE" -> account \in p.admins
          [] r = "CREDIT_MANAGER_ROLE" -> account \in p.creditManagers
          [] r = "OPERATOR_ROLE" -> account \in p.operators}

\* C17: a bulkTeleport without signature, on a key with a route and to a pool
\* that is not paused, passes the authorization exactly when its caller holds
\* the operator or the admin role, and otherwise fails with "Signature
\* required for non-operators" and writes nothing; setMaxCredits passes the
\* authorization exactly when its caller holds the credit manager or the
\* admin role, and otherwise fails with "Unauthorized" and writes nothing; an
\* admin that holds neither of the two other roles passes both
C17_RoleChecks ==
    [][/\ (/\ last'.op = "bulkTeleport"
           /\ pc = "idle"
           /\ last'.sig = NoSig
           /\ ~pool.paused
           /\ pool.routes[last'.key].set) =>
            LET roles == RolesOf(pool, last'.caller)
            IN  IF roles \cap {"ADMIN_ROLE", "OPERATOR_ROLE"} # {}
                THEN /\ last'.res # "Signature required for non-operators"
                     /\ (BulkValidUpToLiquidity
                         /\ BigLeq(usdcToUSDh(ToBig(last'.args[3])), ext.usdhBal)) =>
                            last'.res = "calling teleport"
                ELSE /\ last'.res = "Signature required for non-operators"
                     /\ pool' = pool
                     /\ ext' = ext
                     /\ pc' = "idle"
       /\ last'.op = "setMaxCredits" =>
            LET roles == RolesOf(pool, last'.caller)
                k == << last'.args[1], last'.args[2] >>
            IN  IF roles \cap {"ADMIN_ROLE", "CREDIT_MANAGER_ROLE"} # {}
                THEN /\ last'.res # "Unauthorized"
                     /\ (last'.args[1] # NullAddr /\ last'.args[2] # NullId) =>
                            /\ last'.res = "ok"
                            /\ pool' = [pool EXCEPT !.maxCredits[k] = last'.args[3]]
                            /\ ext' = ext
                ELSE /\ last'.res = "Unauthorized"
                     /\ pool' = pool
                     /\ ext' = ext
      ]_vars

\* an admin that is no longer an operator settles without a signature
C17_Witness ==
    /\ last.op = "bulkTeleport"
    /\ last.res = "calling teleport"
    /\ last.sig = NoSig
    /\ RolesOf(saved.pool, last.caller) = {"ADMIN_ROLE"}
    /\ RolesOf(saved.pool, Op) = {"CREDIT_MANAGER_ROLE"}


\* a step that changes the pause flag
PauseFlagChanges == pool'.paused # pool.paused

\* C18 (as claimed): emergencyPause and unpause succeed for a caller that
\* holds the admin role, and the pause flag is changed by no caller that does
\* not hold it
C18_PauseOnlyByAdmin ==
    [][/\ (last'.op = "emergencyPause" /\ last'.caller \in pool.admins
              /\ ~pool.paused) => last'.res = "ok"
       /\ (last'.op = "unpause" /\ last'.caller \in pool.admins
              /\ pool.paused) => last'.res = "ok"
       /\ PauseFlagChanges => last'.caller \in pool.admins
      ]_vars

\* C18 (amended): emergencyPause on a pool that is not paused and unpause on a
\* paused pool succeed exactly when the caller is the owner of the contract;
\* from any other caller, the admin role or not, they fail with
\* OwnableUnauthorizedAccount and write nothing; and the pause flag changes
\* in no other step than an emergencyPause or unpause of the owner
C18_PauseOnlyByOwner ==
    [][/\ (last'.op = "emergencyPause" /\ ~pool.paused) =>
            IF last'.caller = pool.owner
            THEN last'.res = "ok" /\ pool'.paused
            ELSE /\ last'.res = "OwnableUnauthorizedAccount"
                 /\ pool' = pool
       /\ (last'.op = "unpause" /\ pool.paused) =>
            IF last'.caller = pool.owner
            THEN last'.res = "ok" /\ ~pool'.paused
            ELSE /\ last'.res = "OwnableUnauthorizedAccount"
                 /\ pool' = pool
       /\ PauseFlagChanges =>
            /\ last'.op \in {"emergencyPause", "unpause"}
            /\ last'.res = "ok"
            /\ last'.caller = pool.owner
      ]_vars

\* the ownership has been handed to an account without the admin role, and
\* that account has paused the pool
C18_Witness ==
    /\ last.op = "emergencyPause"
    /\ last.res = "ok"
    /\ last.caller = pool.owner
    /\ last.caller \notin pool.admins
    /\ pool.admins # {}
    /\ pool.paused


\* the pool after the grant or the revocation op has been made for the account
RoleGranted(p, op, account) ==
    CASE op = "grantCreditManagerRole" ->
             [p EXCEPT !.creditManagers = @ \cup {account}]
      [] op = "revokeCreditManagerRole" ->
             [p EXCEPT !.creditManagers = @ \ {account}]
      [] op = "grantOperatorRole" -> [p EXCEPT !.operators = @ \cup {account}]
      [] op = "revokeOperatorRole" -> [p EXCEPT !.operators = @ \ {account}]

RoleOps ==
    {"grantCreditManagerRole", "revokeCreditManagerRole",
     "grantOperatorRole", "revokeOperatorRole"}

Principals == Callers \cup Signers \cup {Gateway, NullAddr}

\* C20: in the state the constructor leaves, the initial owner holds the
\* admin, the credit manager and the operator role and no other account
\* holds any role, the pool is not paused, the credits, the nonce and the cap
\* of every key are 0, no signature is used and no route is set
C20_InitialState ==
    last.op = "constructor" =>
        /\ pool.owner = Owner
        /\ RolesOf(pool, Owner) =
               {"ADMIN_ROLE", "CREDIT_MANAGER_ROLE", "OPERATOR_ROLE"}
        /\ \A a \in Principals \ {Owner} : RolesOf(pool, a) = {}
        /\ pool.admins \cup pool.creditManagers \cup pool.operators = {Owner}
        /\ ~pool.paused
        /\ ~pool.emergencyPaused
        /\ \A k \in AllKeys :
               /\ pool.credits[k] = 0
               /\ pool.nonces[k] = 0
               /\ pool.maxCredits[k] = 0
               /\ ~pool.routes[k].set
        /\ pool.usedSignatures = {}

\* the pool right after its construction, before any call
C20_Witness ==
    /\ last.op = "constructor"
    /\ last.res = "ok"
    /\ pc = "idle"
    /\ pool = Constructed(Owner)
    /\ ext.custody = 0

RouteSet(l) == l.args

\* C22: a setRoute that succeeds leaves routes[key] at exactly the assetId,
\* destChain and recipient of the call, set, whatever route the key had
\* before, changes nothing else, and its RouteSet record carries those fields;
\* and a route that is set in a committed state is set in every later one
C22_RouteIsWhatWasSet ==
    [][/\ (last'.op = "setRoute" /\ last'.res = "ok") =>
            LET k == last'.key
                a == last'.args
            IN  /\ k = << a[1], a[2] >>
                /\ pool'.routes[k] = [assetId |-> a[3], destChain |-> a[4],
                                      recipient |-> a[5], set |-> TRUE]
                /\ \A q \in AllKeys \ {k} : pool'.routes[q] = pool.routes[q]
                /\ pool' = [pool EXCEPT !.routes[k] = pool'.routes[k]]
                /\ ext' = ext
                /\ RouteSet(last') = << k[1], k[2], pool'.routes[k].assetId,
                                        pool'.routes[k].destChain,
                                        pool'.routes[k].recipient >>
       /\ \A k \in AllKeys :
            CommittedPool.routes[k].set => CommittedPool'.routes[k].set
       /\ \A k \in AllKeys :
            (pool.routes[k].set /\ last'.res # "teleport reverted") =>
                pool'.routes[k].set
      ]_vars

\* the route of K1 has been replaced: the key has settled to one asset id and
\* is now routed to the other, to another recipient
C22_Witness ==
    /\ last.op = "setRoute"
    /\ last.res = "ok"
    /\ last.key = K1
    /\ pool.routes[K1] = [assetId |-> USDH_ASSET2, destChain |-> DEST2,
                          recipient |-> R2, set |-> TRUE]
    /\ ext.totalTeleported[USDH_ASSET] # BigZero
    /\ ext.totalTeleported[USDH_ASSET2] = BigZero

(***************************************************************************)
(* C23.  What is handed to the gateway.                                    *)
(***************************************************************************)
\* the parameters of the teleport in a step that calls the gateway, but for
\* the payload: the converted amount, no relayer fee, no redeem, no native
\* cost, the timeout of the call, and asset id, destination and (encoded)
\* recipient of the route of the key as it is when bulkTeleport is called
TeleportCarriesRoute ==
    LET a == last'.args
        r == pool.routes[last'.key]
        p == frame'.p
    IN  /\ p.amount = scaleAmount(ToBig(a[3]), 6, 18)
        /\ p.relayerFee = 0
        /\ p.redeem = FALSE
        /\ p.nativeCost = 0
        /\ p.timeout = a[4]
        /\ p.assetId = r.assetId
        /\ p.dest = r.destChain
        /\ p.to = << "000000000000000000000000", r.recipient >>

\* the BulkTeleported record of a step in which teleport returns: token,
\* providerId and amount of the call, recipient and destination of the route
\* as it was when bulkTeleport was called
RecordCarriesRoute ==
    LET r == saved.pool.routes[frame.key]
    IN  last'.args = << frame.key[1], frame.key[2], frame.amount,
                        r.recipient, r.destChain >>

\* the parameters and the record, with nothing said of the payload
TeleportParamsButPayload ==
    [][/\ (pc = "idle" /\ pc' = "teleport") => TeleportCarriesRoute
       /\ (pc = "teleport" /\ last'.res = "ok" /\ last'.op = "bulkTeleport"
              /\ pc' = "idle") => RecordCarriesRoute
      ]_vars

\* C23 (as claimed): every teleport bulkTeleport issues carries the converted
\* amount, relayer fee 0, redeem false, native cost 0, an empty payload, the
\* timeout of the call and asset id, destination and encoded recipient of the
\* route as it is when the call is made, and the settlement record carries
\* the fields of that route
C23_TeleportParams ==
    [][/\ (pc = "idle" /\ pc' = "teleport") =>
            /\ TeleportCarriesRoute
            /\ frame'.p.data = EmptyBytes
       /\ (pc = "teleport" /\ last'.res = "ok" /\ last'.op = "bulkTeleport"
              /\ pc' = "idle") => RecordCarriesRoute
      ]_vars

(***************************************************************************)
(* C24.  One teleport for one settlement.                                  *)
(***************************************************************************)
\* C24: the gateway accepts a teleport exactly in the steps in which a
\* bulkTeleport succeeds: the count of accepted teleports is the count of
\* successful settlements, in such a step both go up by one and the total
\* teleported under the asset id of the settlement's route goes up by
\* usdcToUSDh(amount) while the totals of the other asset ids stay; in every
\* other step, a failed bulkTeleport among them, counts and totals stay
C24_OneTeleportPerSettlement ==
    /\ [](ext.teleportCount = ext.bulkTeleported)
    /\ [][LET succeeds == /\ last'.op = "bulkTeleport"
                          /\ last'.res = "ok"
                          /\ pc = "teleport"
                          /\ pc' = "idle"
          IN  IF succeeds
              THEN LET id == saved.pool.routes[frame.key].assetId
                   IN  /\ ext'.teleportCount = ext.teleportCount + 1
                       /\ ext'.bulkTeleported = ext.bulkTeleported + 1
                       /\ ext.teleportCount = saved.ext.teleportCount
                       /\ ext'.totalTeleported[id] =
                              BigAdd(saved.ext.totalTeleported[id],
                                     usdcToUSDh(ToBig(frame.amount)))
                       /\ \A o \in AssetIds \ {id} :
                              ext'.totalTeleported[o] = saved.ext.totalTeleported[o]
                       /\ settled'[frame.key] = settled[frame.key] + frame.amount
              ELSE /\ ext'.teleportCount = ext.teleportCount
                   /\ ext'.bulkTeleported = ext.bulkTeleported
                   /\ ext'.totalTeleported = ext.totalTeleported
                   /\ settled' = settled
         ]_vars

\* settlements have gone out under two asset ids, one teleport each
C24_Witness ==
    /\ ext.teleportCount = 2
    /\ ext.bulkTeleported = 2
    /\ ext.totalTeleported[USDH_ASSET] = usdcToUSDh(ToBig(1))
    /\ ext.totalTeleported[USDH_ASSET2] = usdcToUSDh(ToBig(1))
    /\ settled[K1] = 2
    /\ pc = "idle"

(***************************************************************************)
(* C25.  The gateway's allowance.                                          *)
(***************************************************************************)
\* C25: when bulkTeleport calls teleport the gateway's allowance over the
\* pool's USD.h covers the converted amount; the call has set the allowance
\* to type(uint256).max if it found it below the converted amount and has
\* left it as it was otherwise; and nothing else changes the allowance, but
\* for the revert of a settlement, which takes it back to what it was
C25_LazyAllowance ==
    [][/\ (pc = "idle" /\ pc' = "teleport") =>
            LET usdhAmount == usdcToUSDh(ToBig(last'.args[3]))
            IN  /\ BigLeq(usdhAmount, ext'.allowance)
                /\ ext'.allowance = IF BigLess(ext.allowance, usdhAmount)
                                    THEN MaxUint256
                                    ELSE ext.allowance
       /\ ext'.allowance # ext.allowance =>
            \/ /\ pc = "idle"
               /\ pc' = "teleport"
               /\ ext'.allowance = MaxUint256
            \/ /\ last'.res = "teleport reverted"
               /\ ext'.allowance = saved.ext.allowance
      ]_vars

\* a settlement that found the allowance an earlier one had granted, and
\* left it as it was
C25_Witness ==
    /\ pc = "teleport"
    /\ last.res = "calling teleport"
    /\ saved.ext.allowance = MaxUint256
    /\ ext.allowance = MaxUint256
    /\ ext.bulkTeleported > 0

(***************************************************************************)
(* C26, C27.  The decimal conversion.                                      *)
(***************************************************************************)
\* the reference conversion, over the integers: the amount, its product with
\* 10^(to - from), or its quotient by 10^(from - to) rounded down
ReferenceScale(amount, fromDecimals, toDecimals) ==
    IF fromDecimals = toDecimals THEN amount
    ELSE IF fromDecimals < toDecimals
         THEN IF amount = << >> THEN << >>
              ELSE [i \in 1..(Len(amount) + toDecimals - fromDecimals) |->
                       IF i <= toDecimals - fromDecimals THEN 0
                       ELSE amount[i - (toDecimals - fromDecimals)]]
         ELSE IF Len(amount) <= fromDecimals - toDecimals THEN << >>
              ELSE [i \in 1..(Len(amount) - (fromDecimals - toDecimals)) |->
                       amount[i + (fromDecimals - toDecimals)]]

\* a conversion that has returned
Scaled == pc = "scaled" /\ ~frame.reverted

\* the product of the conversion is a uint256
FitsUint256 ==
    BigLess(ReferenceScale(frame.amount, frame.fromDecimals, frame.toDecimals),
            Two256)

\* scaleAmount is the reference conversion wherever the reference is a
\* uint256, and 10^18 and 999_999 on the two inputs of the tests
ScaleAmountWhereItFits ==
    /\ (Scaled /\ FitsUint256) =>
          frame.result = ReferenceScale(frame.amount, frame.fromDecimals,
                                        frame.toDecimals)
    /\ (Scaled /\ frame.amount = ToBig(1000000) /\ frame.fromDecimals = 6
           /\ frame.toDecimals = 18) =>
          frame.result = BigMulPow10(<< 1 >>, 18)
    /\ (Scaled /\ frame.amount = Nines(18) /\ frame.fromDecimals = 18
           /\ frame.toDecimals = 6) =>
          frame.result = ToBig(999999)

\* C26 (as claimed): whatever scaleAmount returns is the reference
\* conversion of its input: the amount for equal decimals, the amount times
\* 10^(to - from) going up, the amount divided by 10^(from - to) and rounded
\* down going down
C26_ScaleAmountIsReference ==
    Scaled =>
        frame.result = ReferenceScale(frame.amount, frame.fromDecimals,
                                      frame.toDecimals)


\* a conversion that has returned and been converted back
ScaledBack == pc = "back"

\* y is an exact multiple of 10^12: its twelve lowest digits are zero
MultipleOfPow12(y) ==
    y = << >> \/ (Len(y) > 12 /\ \A i \in 1..12 : y[i] = 0)

\* the round trip where the way up fits a uint256: a ledger amount up to
\* LastUnwrapped comes back from 18 decimals as it went, and so does every
\* multiple of 10^12 from 6 decimals
RoundTripWhereItFits ==
    ScaledBack =>
        /\ (/\ frame.fromDecimals = USDC_DECIMALS
            /\ frame.toDecimals = USDH_DECIMALS
            /\ BigLeq(frame.amount, LastUnwrapped)) => frame.back = frame.amount
        /\ (/\ frame.fromDecimals = USDH_DECIMALS
            /\ frame.toDecimals = USDC_DECIMALS
            /\ MultipleOfPow12(frame.amount)) => frame.back = frame.amount

\* C27 (as claimed): every ledger amount x comes back from the round trip
\* scaleAmount(scaleAmount(x, 6, 18), 18, 6) as x, and every bridging-asset
\* amount y that is an exact multiple of 10^12 comes back from
\* scaleAmount(scaleAmount(y, 18, 6), 6, 18) as y
C27_RoundTrip ==
    ScaledBack =>
        /\ (/\ frame.fromDecimals = USDC_DECIMALS
            /\ frame.toDecimals = USDH_DECIMALS) => frame.back = frame.amount
        /\ (/\ frame.fromDecimals = USDH_DECIMALS
            /\ frame.toDecimals = USDC_DECIMALS
            /\ MultipleOfPow12(frame.amount)) => frame.back = frame.amount


(***************************************************************************)
(* C28, C29.  The requires on the arguments, and where they stand.         *)
(***************************************************************************)
\* the messages of the requires on the arguments
ValidationErrors ==
    {"zero amount", "zero", "Invalid token address", "Invalid provider ID",
     "Invalid recipient", "Invalid asset ID", "Invalid destination chain",
     "Invalid timeout"}

\* postPayment(token, amount, providerId) with amount 0 or a null token or
\* providerId
PostArgsInvalid(args) ==
    args[2] = 0 \/ args[1] = NullAddr \/ args[3] = NullId

\* bulkTeleport(token, providerId, amount, timeoutSeconds) with amount 0 or
\* timeoutSeconds 0
BulkAmountOrTimeoutZero(args) == args[3] = 0 \/ args[4] = 0

\* the caller of the bulkTeleport that is being made passes its
\* authorization: on a role, or on the unused signature of the recipient of
\* the route over the digest of the call at the nonce of its key
BulkAuthorizes ==
    \/ BulkIsAuthorized(last'.caller)
    \/ /\ RouteIsSet(pool.routes[last'.key])
       /\ last'.sig = ClaimSignature(pool.routes[last'.key].recipient,
                                     last'.args, pool.nonces[last'.key],
                                     ChainId, Self)
       /\ last'.sig \notin pool.usedSignatures

\* the call that is being made fails on a require on its arguments and
\* leaves the pool, the tokens and the gateway as they were
RejectedAsInvalid ==
    /\ last'.res \in ValidationErrors
    /\ pool' = pool
    /\ ext' = ext
    /\ pc' = pc
    /\ deposited' = deposited
    /\ settled' = settled

\* postPayment and setRoute on their arguments, on a pool that is not paused
\* (and, postPayment being nonReentrant, not from inside teleport): setRoute
\* whoever calls, before any look at role or signature
PostAndRouteValidate ==
    /\ (/\ last'.op = "postPayment"
        /\ ~pool.paused
        /\ ~pool.entered
        /\ PostArgsInvalid(last'.args)) => RejectedAsInvalid
    /\ (/\ last'.op = "setRoute"
        /\ ~pool.paused
        /\ ~RouteArgsValid(last'.args)) => RejectedAsInvalid

\* C28 (as claimed): on a pool that is not paused, postPayment with amount 0
\* or a null token or providerId, setRoute with a null token, recipient or
\* assetId or an empty destChain (whoever calls, an admin included), and an
\* authorized bulkTeleport with amount 0 or timeoutSeconds 0 each fail on a
\* require on the arguments and change no state.
C28_InputValidation ==
    [][/\ PostAndRouteValidate
       /\ (/\ last'.op = "bulkTeleport"
           /\ ~pool.paused
           /\ ~pool.entered
           /\ BulkAuthorizes
           /\ BulkAmountOrTimeoutZero(last'.args)) => RejectedAsInvalid]_vars

\* C28 (amended): as claimed for postPayment and setRoute; an authorized
\* bulkTeleport with amount 0 or timeoutSeconds 0 fails on a require on the
\* arguments and changes no state when the route of its key is set.  (On a
\* key without a route it fails with "route not set", the first require of
\* the function, and changes no state either.)
C28_InputValidationOnRoute ==
    [][/\ PostAndRouteValidate
       /\ (/\ last'.op = "bulkTeleport"
           /\ ~pool.paused
           /\ ~pool.entered
           /\ BulkAuthorizes
           /\ BulkAmountOrTimeoutZero(last'.args)) =>
             IF RouteIsSet(pool.routes[last'.key])
             THEN RejectedAsInvalid
             ELSE /\ last'.res = "route not set"
                  /\ pool' = pool
                  /\ ext' = ext]_vars

\* the operator's bulkTeleport on a set route with timeoutSeconds 0 has
\* failed with "Invalid timeout"
C28_Witness ==
    /\ last.op = "bulkTeleport"
    /\ last.res = "Invalid timeout"
    /\ last.path = "role"
    /\ last.args[4] = 0
    /\ pool.routes[last.key].set
    /\ ~pool.paused


\* the messages of a bulkTeleport that fails in its authorization
BulkAuthErrors ==
    {"Signature required for non-operators", "ECDSAInvalidSignatureLength",
     "Invalid signature from recipient"}

\* a step that is a bulkTeleport, on a pool that is not paused and not from
\* inside teleport, of a caller who holds neither role and brings no valid
\* signature: none, one of a wrong length, or one that is not the unused
\* signature of the recipient of the route over the digest of the call
UnauthorizedBulkStep ==
    /\ last'.op = "bulkTeleport"
    /\ ~pool.paused
    /\ ~pool.entered
    /\ ~BulkAuthorizes

\* C29 (as claimed): a bulkTeleport of a caller without role and without a
\* valid signature fails in its authorization, whatever else is wrong with
\* it: no route, amount 0, timeoutSeconds 0, more than the credits, more
\* than the cap.
C29_AuthorizesBeforeValidating ==
    [][UnauthorizedBulkStep => last'.res \in BulkAuthErrors]_vars

\* C29 (amended): on a key whose route is set, a bulkTeleport of a caller
\* without role and without a valid signature fails in its authorization and
\* changes no state, whatever else is wrong with it: amount 0, timeoutSeconds
\* 0, more than the credits, more than the cap.  On a key without a route it
\* fails with "route not set": that require stands ahead of the
\* authorization.
C29_AuthorizesAfterRouteCheck ==
    [][UnauthorizedBulkStep =>
          /\ pool' = pool
          /\ ext' = ext
          /\ IF RouteIsSet(pool.routes[last'.key])
             THEN last'.res \in BulkAuthErrors
             ELSE last'.res = "route not set"]_vars

\* a caller without role has called bulkTeleport with amount 0 and without
\* signature on a set route, and failed in the authorization
C29_Witness ==
    /\ last.op = "bulkTeleport"
    /\ last.res = "Signature required for non-operators"
    /\ last.args[3] = 0
    /\ last.caller \notin pool.admins \cup pool.operators
    /\ pool.routes[last.key].set
    /\ ~pool.paused

\* the other cases: a caller without role has failed in the authorization
\* with timeoutSeconds 0, with more than the credits, with more than the cap
UnauthorizedBulkCases ==
    [zeroTimeout |->
        /\ last.op = "bulkTeleport" /\ last.res \in BulkAuthErrors
        /\ last.args[4] = 0,
     insufficient |->
        /\ last.op = "bulkTeleport" /\ last.res \in BulkAuthErrors
        /\ pool.credits[last.key] < last.args[3],
     aboveCap |->
        /\ last.op = "bulkTeleport" /\ last.res \in BulkAuthErrors
        /\ pool.maxCredits[last.key] > 0
        /\ last.args[3] > pool.maxCredits[last.key]]


(***************************************************************************)
(* C30.  The digest queries and the digests that are verified.             *)
(***************************************************************************)
\* getClaimMessageHash(token, providerId, amount, timeoutSeconds) on pool p,
\* for the arguments a of a bulkTeleport
QueryClaim(p, a) == getClaimMessageHash(p.nonces, a[1], a[2], a[3], a[4])

\* getRouteMessageHash on the arguments a of a setRoute
QueryRoute(a) == getRouteMessageHash(a[1], a[2], a[3], a[4], a[5])

\* a step that is a bulkTeleport on a set route by a caller without role, on
\* a pool that is not paused and not from inside teleport
RolelessBulkStep ==
    /\ last'.op = "bulkTeleport"
    /\ ~pool.paused
    /\ ~pool.entered
    /\ RouteIsSet(pool.routes[last'.key])
    /\ ~BulkIsAuthorized(last'.caller)

\* a step that is a setRoute with well-formed arguments by a caller who is
\* neither admin nor owner, on a pool that is not paused
RolelessRouteStep ==
    /\ last'.op = "setRoute"
    /\ ~pool.paused
    /\ RouteArgsValid(last'.args)
    /\ ~RouteIsAuthorized(last'.caller)

\* C30: a bulkTeleport of a caller without role passes its authorization
\* with the signature the recipient of the route makes, as a wallet signs a
\* message, over the digest getClaimMessageHash returns for the arguments of
\* the call, and with no other 65-byte signature.  The digest returned for
\* given arguments changes only when a bulkTeleport on a signature enters
\* teleport on that key (or is undone by its revert); when it does, the
\* digest returned for its arguments is another, and a signature that has
\* once passed does not pass again.  A setRoute of a caller who is neither
\* admin nor owner succeeds exactly with the recipient's signature over the
\* digest getRouteMessageHash returns for its arguments.
C30_QueriesAgreeWithVerification ==
    [][/\ RolelessBulkStep =>
             LET a == last'.args
                 signed == Sign(pool.routes[last'.key].recipient,
                                QueryClaim(pool, a))
             IN  /\ last'.sig = signed =>
                       /\ last'.res \notin BulkAuthErrors
                       /\ last'.res # "Signature already used"
                       /\ last'.res = "calling teleport" =>
                             /\ QueryClaim(pool', a) # QueryClaim(pool, a)
                             /\ last'.sig \in pool'.usedSignatures
                 /\ (last'.sig.length = 65 /\ last'.sig # signed) =>
                       last'.res = "Invalid signature from recipient"
                 /\ last'.sig \in pool.usedSignatures =>
                       last'.res = "Invalid signature from recipient"
       /\ \A k \in Keys :
             pool'.nonces[k] # pool.nonces[k] =>
                 /\ last'.op = "bulkTeleport"
                 /\ last'.key = k
                 /\ last'.path = "sig"
                 /\ last'.res \in {"calling teleport", "teleport reverted"}
       /\ RolelessRouteStep =>
             /\ last'.sig = Sign(last'.args[5], QueryRoute(last'.args)) =>
                   last'.res = "ok"
             /\ (last'.sig.length = 65
                 /\ last'.sig # Sign(last'.args[5], QueryRoute(last'.args))) =>
                   last'.res = "Invalid signature from recipient"]_vars

\* after a settlement on the recipient's signature over the queried digest
\* has gone through on a key, the same signature has been brought again and
\* has failed: it is over the digest of the nonce before
C30_Witness ==
    /\ last.op = "bulkTeleport"
    /\ last.res = "Invalid signature from recipient"
    /\ last.sig \in pool.usedSignatures
    /\ pool.nonces[last.key] = 1
    /\ settled[last.key] > 0
    /\ last.sig = Sign(pool.routes[last.key].recipient,
                       [QueryClaim(pool, last.args) EXCEPT !.nonce = 0])

(***************************************************************************)
(* C31.  Who can move a configured route.                                  *)
(***************************************************************************)
\* the accounts that hold a role or the ownership
RoleHolders ==
    pool.admins \cup pool.creditManagers \cup pool.operators \cup {pool.owner}

\* a step that is a call of setRoute or bulkTeleport on a configured key, in
\* a transaction of its own, by an account that holds no role, is not the
\* route's recipient and brings no signature or its own
OutsiderStep ==
    /\ pc = "idle"
    /\ last'.op \in {"setRoute", "bulkTeleport"}
    /\ last'.caller \in Members \ RoleHolders
    /\ pool.routes[last'.key].set
    /\ last'.caller # pool.routes[last'.key].recipient
    /\ (last'.sig = NoSig \/ last'.sig.signer = last'.caller)

\* C31: once the route of a key is set, a call of setRoute or bulkTeleport on
\* that key by an account that holds no role and is not the route's recipient,
\* signed by nobody or by that account itself, leaves the route's recipient
\* as it is, does not lower the key's credits and does not get as far as
\* teleport.
C31_RouteOwnership ==
    [][OutsiderStep =>
         LET k == last'.key
         IN  /\ pool'.routes[k].recipient = pool.routes[k].recipient
             /\ pool'.credits[k] >= pool.credits[k]
             /\ pc' = "idle"]_vars

(***************************************************************************)
(* C32.  One settlement per key and nonce on a signature.                  *)
(***************************************************************************)
\* a step that is a bulkTeleport of a caller without role, up to its failure
\* or its call into the gateway, with a signature made over a claim digest at
\* a nonce the key has left behind
StaleNonceStep ==
    /\ SignedBulkStep
    /\ last'.sig.length = 65
    /\ last'.sig.msg.nonce < CommittedPool.nonces[last'.key]

\* C32: a settlement that succeeds on a signature was signed at the key's
\* nonce and moves the nonce one up; the nonce of a key never goes down; and
\* a signature made at a nonce the key has left behind, whoever signed it and
\* for whatever amount and timeout, is rejected and nothing changes.  So of
\* the signatures made for one key at one nonce at most one settles.
C32_OneSettlementPerNonce ==
    /\ [][\A k \in AllKeys :
             /\ CommittedPool'.nonces[k] >= CommittedPool.nonces[k]
             /\ SettledOnSignature(k) =>
                    /\ frame.signature.msg.nonce = saved.pool.nonces[k]
                    /\ CommittedPool'.nonces[k] = frame.signature.msg.nonce + 1]_vars
    /\ [][StaleNonceStep =>
             /\ last'.res # "calling teleport"
             /\ pool' = pool
             /\ ext' = ext
             /\ pc' = pc]_vars

\* the recipient signed twice at nonce 0, for the same amount within two
\* timeouts; one signature has settled, and the other is rejected while the
\* key holds the credits and the pool the USD.h it asks for
C32_Witness ==
    /\ pc = "idle"
    /\ last.op = "bulkTeleport"
    /\ last.res = "Invalid signature from recipient"
    /\ last.sig.signer = pool.routes[last.key].recipient
    /\ last.sig.msg = ClaimMessage(last.args[1], last.args[2], last.args[3],
                                   last.args[4], 0, ChainId, Self)
    /\ pool.nonces[last.key] = 1
    /\ \E u \in pool.usedSignatures :
          /\ u # last.sig
          /\ u.signer = last.sig.signer
          /\ u.msg.nonce = 0
          /\ u.msg.providerId = last.key[2]
    /\ pool.credits[last.key] >= last.args[3]
    /\ BigLeq(usdcToUSDh(ToBig(last.args[3])), ext.usdhBal)

(***************************************************************************)
(* C33.  The signer a settlement is checked against.                       *)
(***************************************************************************)
\* a step that is a bulkTeleport, in a transaction of its own, of a caller
\* without role on a key that is routed, with a 65-byte signature over the
\* digest of this call at the key's nonce
CurrentMessageStep ==
    /\ SignedBulkStep
    /\ pc = "idle"
    /\ pool.routes[last'.key].set
    /\ last'.sig.length = 65
    /\ ~last'.sig.raw
    /\ last'.sig.msg = ClaimMessage(last'.args[1], last'.args[2], last'.args[3],
                                    last'.args[4], pool.nonces[last'.key],
                                    ChainId, Self)

\* C33: a setRoute that succeeds writes the recipient it is given and leaves
\* every nonce as it is.  A settlement signed over the current message by
\* another account than the recipient of the route as it stands at the call
\* (the recipient of an earlier route, say) is rejected and changes nothing;
\* signed by that recipient it goes, when the key holds the credits and the
\* pool the USD.h, as far as teleport, with that recipient as destination,
\* and the event of the settlement names that recipient.
C33_SettlesOnCurrentRecipient ==
    /\ [][(last'.op = "setRoute" /\ last'.res = "ok") =>
             /\ pool'.nonces = pool.nonces
             /\ pool'.routes[last'.key].recipient = last'.args[5]]_vars
    /\ [][CurrentMessageStep =>
             LET k == last'.key
                 r == pool.routes[k]
                 usdhAmount == usdcToUSDh(ToBig(last'.args[3]))
             IN  /\ last'.sig.signer # r.recipient =>
                        /\ last'.res = "Invalid signature from recipient"
                        /\ pool' = pool
                        /\ ext' = ext
                        /\ pc' = pc
                 /\ (/\ last'.sig.signer = r.recipient
                     /\ pool.credits[k] >= last'.args[3]
                     /\ BigLeq(usdhAmount, ext.usdhBal)) =>
                        /\ last'.res = "calling teleport"
                        /\ frame'.p.to = evmAddressToBytes32(r.recipient)
                        /\ frame'.p.amount = usdhAmount]_vars
    /\ [][(pc = "teleport" /\ last'.op = "bulkTeleport" /\ last'.res = "ok") =>
             /\ last'.args[4] = frame.r.recipient
             /\ frame.p.to = evmAddressToBytes32(frame.r.recipient)]_vars

\* K1 was routed to R1, who settled on its signature at nonce 0; the route
\* went to another recipient, who settled on its own at nonce 1
C33_Witness ==
    /\ pc = "idle"
    /\ last.op = "bulkTeleport"
    /\ last.res = "ok"
    /\ last.path = "sig"
    /\ last.key = K1
    /\ last.args[4] = Op
    /\ pool.routes[K1].recipient = Op
    /\ pool.nonces[K1] = 2
    /\ \E u \in pool.usedSignatures : u.signer = R1 /\ u.msg.nonce = 0
    /\ \E u \in pool.usedSignatures : u.signer = Op /\ u.msg.nonce = 1

(***************************************************************************)
(* C34.  The two pause flags.                                              *)
(***************************************************************************)
\* C34: emergencyPaused equals Pausable's paused in every state.  The owner's
\* emergencyPause sets both on a pool that is not paused and fails on one that
\* is, changing nothing; the owner's unpause clears both on a paused pool and
\* fails on one that is not, changing nothing.  No postPayment and no
\* bulkTeleport ends on the require on emergencyPaused.
C34_FlagsAgree ==
    /\ [](pool.emergencyPaused = pool.paused)
    /\ [][(last'.op = "emergencyPause" /\ last'.caller = pool.owner) =>
             IF pool.paused
             THEN last'.res = "EnforcedPause" /\ pool' = pool
             ELSE /\ last'.res = "ok"
                  /\ pool' = [pool EXCEPT !.emergencyPaused = TRUE,
                                          !.paused = TRUE]]_vars
    /\ [][(last'.op = "unpause" /\ last'.caller = pool.owner) =>
             IF pool.paused
             THEN /\ last'.res = "ok"
                  /\ pool' = [pool EXCEPT !.emergencyPaused = FALSE,
                                          !.paused = FALSE]
             ELSE last'.res = "ExpectedPause" /\ pool' = pool]_vars
    /\ [](last.res # "Contract is emergency paused")

\* the owner has called emergencyPause on a pool that was paused
C34_Witness ==
    /\ last.op = "emergencyPause"
    /\ last.caller = pool.owner
    /\ last.res = "EnforcedPause"
    /\ pool.paused
    /\ pool.emergencyPaused

(***************************************************************************)
(* C35.  The tokens held against the credits.                              *)
(***************************************************************************)
\* the credits of every provider id in one token
CreditsIn(p, token) ==
    p.credits[<< token, NullId >>] + p.credits[<< token, P1 >>]
        + p.credits[<< token, P2 >>]

\* C35: without setCredits and emergencyWithdraw the pool holds of the
\* deposit token at least the credits of all provider ids in it, in the
\* running and in the committed state, and there are no credits in the null
\* token.  A postPayment that succeeds raises the holding and the credits of
\* its key by its amount; a bulkTeleport leaves the holding and raises no
\* credits.
C35_CustodyCoversCredits ==
    /\ [](/\ ext.custody >= CreditsIn(pool, USDC)
          /\ CommittedExt.custody >= CreditsIn(CommittedPool, USDC)
          /\ CreditsIn(pool, NullAddr) = 0)
    /\ [][(last'.op = "postPayment" /\ last'.res = "ok") =>
             /\ ext'.custody = ext.custody + last'.args[2]
             /\ pool'.credits[last'.key] = pool.credits[last'.key] + last'.args[2]
             /\ CreditsIn(pool', USDC) = CreditsIn(pool, USDC) + last'.args[2]]_vars
    /\ [][last'.op = "bulkTeleport" =>
             /\ ext'.custody = ext.custody
             /\ CommittedExt'.custody = CommittedExt.custody
             /\ CreditsIn(CommittedPool', USDC) <= CreditsIn(CommittedPool, USDC)]_vars

\* everything paid in is held, and part of it has been settled
C35_Witness ==
    /\ pc = "idle"
    /\ last.op = "bulkTeleport"
    /\ last.res = "ok"
    /\ settled[K1] = 1
    /\ pool.credits[K1] = 1
    /\ ext.custody = 2
    /\ CreditsIn(pool, USDC) = 1

(***************************************************************************)
(* C36.  The credits and the cap.                                          *)
(***************************************************************************)
\* C36: on every key with a cap the credits are at most the cap.
C36_CreditsWithinCap ==
    \A k \in AllKeys :
        pool.maxCredits[k] > 0 => pool.credits[k] <= pool.maxCredits[k]

(***************************************************************************)
(* C37.  The conversion of the amounts bulkTeleport admits.                *)
(***************************************************************************)
\* amount * 10^12, as an integer
TimesPow12(amount) == BigMulPow10(amount, USDH_DECIMALS - USDC_DECIMALS)

\* C37: whenever bulkTeleport gets as far as teleport, the amount it hands
\* over, and had compared with the pool's USD.h, is its amount times 10^12.
C37_ConversionNeverWraps ==
    [][(last'.op = "bulkTeleport" /\ last'.res = "calling teleport") =>
          /\ frame'.p.amount = TimesPow12(last'.args[3])
          /\ BigLeq(TimesPow12(last'.args[3]), ext.usdhBal)]_vars

(***************************************************************************)
(* C38.  setRoute on a paused pool.                                        *)
(***************************************************************************)
\* the caller of a setRoute passes its authorization: on the admin role, as
\* owner, or with the signature of the recipient it names
RouteCallAuthorized ==
    \/ last'.caller \in pool.admins
    \/ last'.caller = pool.owner
    \/ last'.sig = RouteSignature(last'.args)

\* C38: on a paused pool every setRoute fails with EnforcedPause and changes
\* nothing, whoever calls and whatever signature comes with it; on a pool
\* that is not paused a setRoute with valid arguments whose caller passes
\* the authorization succeeds and writes the route.
C38_SetRoutePaused ==
    [][last'.op = "setRoute" =>
         /\ pool.paused =>
                /\ last'.res = "EnforcedPause"
                /\ pool' = pool
                /\ ext' = ext
         /\ (~pool.paused /\ RouteArgsValid(last'.args) /\ RouteCallAuthorized) =>
                /\ last'.res = "ok"
                /\ pool'.routes[last'.key] =
                       [assetId |-> last'.args[3], destChain |-> last'.args[4],
                        recipient |-> last'.args[5], set |-> TRUE]]_vars

\* a caller without role has brought the recipient's signature to a paused
\* pool whose key is not routed
C38_Witness ==
    /\ last.op = "setRoute"
    /\ last.res = "EnforcedPause"
    /\ pool.paused
    /\ last.path = "sig"
    /\ last.sig = RouteSignature(last.args)
    /\ ~pool.routes[last.key].set

(***************************************************************************)
(* C39.  What a setRoute writes.                                           *)
(***************************************************************************)
\* how a setRoute of this caller with these arguments and this signature
\* would end in the state at hand
RouteOutcome(caller, a, signature) ==
    SetRouteRun(caller, a[1], a[2], a[3], a[4], a[5], signature).res

\* the signatures over the SET_ROUTE digest of the arguments, and none
RouteSignaturesOn(a) ==
    {NoSig}
    \cup {Sign(s, getRouteMessageHash(a[1], a[2], a[3], a[4], a[5])) :
             s \in Signers}

\* C39: a setRoute that succeeds, on a role or on a signature, writes the
\* route of its key and nothing else: credits, nonces, caps, roles, owner,
\* pause flags and the recorded signatures stay, as does everything outside
\* the pool's storage; a setRoute with the same arguments from an account
\* without role, signed by whomever or not at all, would end after it as it
\* would have ended before it; and the call just made would succeed again.
C39_SetRouteWritesRouteOnly ==
    [][(last'.op = "setRoute" /\ last'.res = "ok") =>
         /\ pool' = [pool EXCEPT !.routes[last'.key] =
                        [assetId |-> last'.args[3], destChain |-> last'.args[4],
                         recipient |-> last'.args[5], set |-> TRUE]]
         /\ UNCHANGED << ext, pc, frame, saved, deposited, settled >>
         /\ \A a \in {last'.args} : \A signature \in RouteSignaturesOn(a) :
               RouteOutcome(Gateway, a, signature)'
                   = RouteOutcome(Gateway, a, signature)
         /\ \E caller \in {last'.caller}, a \in {last'.args},
                  signature \in {last'.sig} :
               RouteOutcome(caller, a, signature)' = "ok"]_vars

\* a caller without role has set the route of a key that holds credits, has
\* settled on a signature before and is capped
C39_Witness ==
    /\ last.op = "setRoute"
    /\ last.res = "ok"
    /\ last.path = "sig"
    /\ last.sig = RouteSignature(last.args)
    /\ pool.credits[last.key] > 0
    /\ pool.nonces[last.key] > 0
    /\ pool.usedSignatures # {}
    /\ pool.maxCredits[last.key] > 0

=============================================================================
